---------------------------- MODULE Spec2Model ----------------------------
(***************************************************************************)
(* A model of FireworkMC/anvil: the container file (file.go, header.go,    *)
(* buffer.go) and the directory cache of open containers (anvil.go).       *)
(*                                                                         *)
(* Byte contents are not enumerated.  A compressed payload is a token      *)
(* [data, method, length]: `data` names the caller's byte sequence,        *)
(* `method` is the byte stored in the frame header and `length` is the     *)
(* buffer's length counter (5 reserved bytes + compressed bytes).  A file  *)
(* section holds the token it was last written from, the index of the      *)
(* buffer section that was copied into it and the number of bytes that     *)
(* were copied, so that a section the writer skipped keeps its old         *)
(* content and a read sees exactly the bytes that are in the file.         *)
(***************************************************************************)
EXTENDS Integers, Sequences, FiniteSets, TLC

----------------------------------------------------------------------------
(* Bounds of the model.                                                    *)

\* log2 of the side of the cell grid; the source uses 5 (x | z<<5, 32x32).
GridShift == 1
\* cells touched by the operations: 0 <= x <= MaxX, 0 <= z <= MaxZ
MaxX == 1
MaxZ == 0
\* threads that read one container concurrently
NumReaders == 2
\* threads, container positions and idle capacity of the directory cache
NumThreads == 2
NumPositions == 2
LruSize == 1
\* containers the cache opens from the filesystem in one run
MaxOpens == 3
\* times one container is closed before the run stops counting
MaxCloses == 2
\* calls a cached handle passes on to its container in a run
MaxGateCalls == 2
\* distinct caller byte sequences
MaxPayload == 2
\* the file is not grown beyond this many sections in the small runs
MaxSections == 5
\* largest file (in sections) an existing empty container is opened with
MaxInitSections == 2
\* sections a container may grow to while it is read concurrently
MaxSectionsRW == 4
\* values of time.Now().Unix()
MaxTime == 1
\* sections a file may have beyond the largest entry in the runs on spilling
MaxSpillRoom == 4
\* the largest offset and size of the entries handed to Header.Set
MaxHeaderOffset == 6
MaxHeaderSize == 2

----------------------------------------------------------------------------
(* Constants of the program.                                               *)

sectionShift == 12
entryHeaderSize == 5
externalMask == 128
MaxEntrySections == 255
CompressionGzip == 1
CompressionZlib == 2
CompressionNone == 3
DefaultCompression == CompressionZlib

GridSide == 2 ^ GridShift
Entries == GridSide * GridSide
SectionSize == 2 ^ sectionShift
sectionSizeMask == SectionSize - 1
MaxFileSections == MaxEntrySections * Entries

Methods == {CompressionGzip, CompressionZlib, CompressionNone}

\* Go's integer division truncates toward zero.
TruncDiv(a, b) == IF a >= 0 THEN a \div b ELSE -((-a) \div b)

Max(a, b) == IF a >= b THEN a ELSE b
Min(a, b) == IF a <= b THEN a ELSE b
SetMin(S) == CHOOSE m \in S : \A k \in S : m <= k

\* sections returns the minimum number of sections to store v bytes
sections(v) == (v + SectionSize - 1) \div SectionSize

\* index of cell (x,z) in the header table: x | z<<5 in the source
CellIndex(x, z) == x + z * GridSide

ValidPos(x, z) == x <= GridSide - 1 /\ z <= GridSide - 1

----------------------------------------------------------------------------
(* The occupancy bitset (bits-and-blooms/bitset) as the header uses it:    *)
(* a bitset is [bits: the set bits, len: its length].                      *)

BitTest(u, pos) == pos \in u.bits

\* NextClear(i): the first clear bit at or after i below the length
NextClear(u, i) ==
    LET cand == {j \in i .. (u.len - 1) : j \notin u.bits}
    IN IF cand = {} THEN [v |-> 0, ok |-> FALSE]
       ELSE [v |-> SetMin(cand), ok |-> TRUE]

\* a NextSet that answers with the last set bit at or after i
NextSet_last(u, i) ==
    LET cand == {j \in u.bits : j >= i}
    IN IF cand = {} THEN [v |-> 0, ok |-> FALSE]
       ELSE [v |-> CHOOSE m \in cand : \A k \in cand : k <= m, ok |-> TRUE]

\* NextSet(i): the first set bit at or after i
NextSet(u, i) ==
    LET cand == {j \in u.bits : j >= i}
    IN IF cand = {} THEN [v |-> 0, ok |-> FALSE]
       ELSE [v |-> SetMin(cand), ok |-> TRUE]

----------------------------------------------------------------------------
(* Header (header.go).  A header is [entries, used].                       *)

NoEntry == [offset |-> 0, size |-> 0, timestamp |-> 0]

Exists(e) == e.offset # 0 /\ e.size # 0

\* markSpace marks the space used by the entry as used: the loop sets the
\* bits from the offset on and stops with an error at the first bit that is
\* already set, leaving the bits before it set
markSpace(u, c) ==
    LET hit  == {i \in 0 .. (c.size - 1) : BitTest(u, c.offset + i)}
        done == IF hit = {} THEN c.size ELSE SetMin(hit)
    IN [used |-> [bits |-> u.bits \cup (c.offset .. (c.offset + done - 1)),
                  len |-> IF done = 0 THEN u.len
                          ELSE Max(u.len, c.offset + done)],
        err |-> IF hit = {} THEN "nil" ELSE "overflows into used space"]

\* a freeSpace that leaves the bits set
freeSpace_kept(u, c) == [used |-> u, err |-> "nil"]

\* freeSpace marks the space used by the entry as unused: the loop clears
\* the bits from the offset on and stops with an error at the first bit that
\* is not set
freeSpace(u, c) ==
    LET miss == {i \in 0 .. (c.size - 1) : ~BitTest(u, c.offset + i)}
        done == IF miss = {} THEN c.size ELSE SetMin(miss)
    IN IF c.offset = 0 \/ c.size = 0 THEN [used |-> u, err |-> "nil"]
       ELSE [used |-> [u EXCEPT !.bits = @ \ (c.offset .. (c.offset + done - 1))],
             err |-> IF miss = {} THEN "nil" ELSE "inconsistent usage of space"]

\* a Header.Remove that leaves the entry in the table
HeaderRemove_stale(h, idx) ==
    [h |-> [h EXCEPT !.used = freeSpace(h.used, h.entries[idx]).used],
     err |-> "nil", panic |-> FALSE]

\* Header.Remove
HeaderRemove(h, idx) ==
    LET f == freeSpace(h.used, h.entries[idx])
    IN IF f.err # "nil"
       THEN [h |-> [h EXCEPT !.used = f.used], err |-> f.err, panic |-> FALSE]
       ELSE [h |-> [entries |-> [h.entries EXCEPT ![idx] = NoEntry],
                    used |-> f.used],
             err |-> "nil", panic |-> FALSE]

\* Header.Set
HeaderSet(h, idx, c) ==
    IF c.offset < 2 \/ c.offset + c.size > MaxFileSections
    THEN IF c.offset = 0 /\ c.size = 0
         THEN HeaderRemove(h, idx)
         ELSE [h |-> h, err |-> "nil", panic |-> TRUE]
    ELSE LET old   == h.entries[idx]
             freed == IF Exists(old) THEN freeSpace(h.used, old).used
                      ELSE h.used
             m     == markSpace(freed, c)
         IN IF m.err # "nil"
            THEN [h |-> [h EXCEPT !.used = m.used], err |-> m.err,
                  panic |-> FALSE]
            ELSE [h |-> [entries |-> [h.entries EXCEPT ![idx] = c],
                         used |-> m.used],
                  err |-> "nil", panic |-> FALSE]

RECURSIVE FindSpaceFrom(_, _, _)
FindSpaceFrom(u, offset, size) ==
    LET c == NextClear(u, offset)
    IN IF ~c.ok THEN [offset |-> 0, found |-> FALSE]
       ELSE LET s == NextSet(u, c.v)
            IN IF s.ok /\ s.v - c.v >= size
               THEN [offset |-> c.v, found |-> TRUE]
               ELSE IF ~s.ok THEN [offset |-> 0, found |-> FALSE]
                    ELSE FindSpaceFrom(u, s.v, size)

\* a FindSpace that always answers with the first section after the header
FindSpace_first(u, size) == [offset |-> 2, found |-> TRUE]

\* Header.FindSpace: the first two sections hold the header
FindSpace(u, size) == FindSpaceFrom(u, 2, size)


\* Header.load on the index words loc and the timestamp words ts of a file
\* of fileSections sections (LoadHeader makes the bitset of that length):
\* every section of every entry is marked; a section beyond the file, or one
\* already marked, fails the load
HeaderLoad(loc, ts, fileSections) ==
    LET Range(c) == (loc[c] \div 256) .. ((loc[c] \div 256) + (loc[c] % 256) - 1)
        all == UNION {Range(c) : c \in DOMAIN loc}
        outside == \E c \in DOMAIN loc : \E p \in Range(c) : p > fileSections
        overlap == \E c1, c2 \in DOMAIN loc :
                       c1 # c2 /\ Range(c1) \cap Range(c2) # {}
    IN IF outside \/ overlap
       THEN [h |-> [entries |-> [c \in DOMAIN loc |-> [offset |-> 0, size |-> 0,
                                                       timestamp |-> 0]],
                    used |-> [bits |-> {}, len |-> 0]],
             err |-> "ErrCorrupted"]
       ELSE [h |-> [entries |-> [c \in DOMAIN loc |->
                                   [offset |-> loc[c] \div 256,
                                    size |-> loc[c] % 256,
                                    timestamp |-> ts[c]]],
                    used |-> [bits |-> all,
                              len |-> IF all = {} THEN fileSections
                                      ELSE Max(fileSections,
                                               1 + CHOOSE m \in all :
                                                     \A k \in all : k <= m)]],
             err |-> "nil"]

----------------------------------------------------------------------------
(* Section buffer (buffer.go).  Only the length counter and the method     *)
(* byte decide what WriteAt emits.                                         *)

\* AppendBytes of n >= 1 bytes to an empty buffer: 5 bytes are reserved
AppendedLength(n) == IF n = 0 THEN 0 ELSE entryHeaderSize + n

\* buffer.Len
BufLen(length) == IF length = entryHeaderSize THEN 0 ELSE length

\* len(b.buf): sections are added only while bytes remain to be copied
BufSections(length) == sections(length)

\* WriteAt, iteration i: the slice b.buf[i][from:to] is written
ChunkFrom(i, withHeader) == IF i = 0 /\ ~withHeader THEN entryHeaderSize ELSE 0

ChunkTo(length, i, withHeader) ==
    IF i = BufSections(length) - 1
    THEN (length - ChunkFrom(i, withHeader)) % SectionSize
    ELSE SectionSize

\* the slice expression panics when its end lies before its start
ChunkPanics(length, withHeader) ==
    \E i \in 0 .. (BufSections(length) - 1) :
        ChunkTo(length, i, withHeader) < ChunkFrom(i, withHeader)

\* bytes emitted by WriteAt over all iterations
Emitted(length, withHeader) ==
    LET Chunk(i) == ChunkTo(length, i, withHeader) - ChunkFrom(i, withHeader)
        n == BufSections(length)
    IN IF n = 0 THEN 0
       ELSE IF n = 1 THEN Chunk(0)
       ELSE Chunk(0) + (n - 2) * SectionSize + Chunk(n - 1)

----------------------------------------------------------------------------
(* The file on disk.                                                       *)

NoTok == [data |-> 0, method |-> 0, length |-> 0]
\* a section never written since the file was extended over it
Zero == [tok |-> NoTok, sec |-> 0, n |-> 0]
NoFile == [tok |-> NoTok, bytes |-> -1]

\* buffer.WriteAt(w, off, true) on the container file, off in sections:
\* iteration i writes ChunkTo bytes at the start of file section off + i
\* (every earlier chunk is a whole section, so the chunks stay aligned).
WriteAtFile(d, tok, off) ==
    [s \in DOMAIN d |->
        IF s >= off /\ s - off < BufSections(tok.length)
           /\ ChunkTo(tok.length, s - off, TRUE) > 0
        THEN [tok |-> tok, sec |-> s - off,
              n |-> ChunkTo(tok.length, s - off, TRUE)]
        ELSE d[s]]

\* Truncate(size): the file is extended with zero bytes
TruncateFile(d, newSize) ==
    [s \in 2 .. (newSize \div SectionSize - 1) |->
        IF s \in DOMAIN d THEN d[s] ELSE Zero]

\* the 32-bit index word uint32(offset)<<8 | uint32(size): the shift keeps the
\* low 24 bits of the offset.  Its two fields as load reads them.
LocWord(offset, size) == (offset % (2 ^ 24)) * 256 + size
WordSize(w) == w % 256
WordOffset(w) == w \div 256


----------------------------------------------------------------------------
(* State.                                                                  *)

VARIABLES
    \* one container (type file, file.go)
    header,     \* a.header: [entries, used]
    size,       \* a.size, bytes
    cm,         \* a.cm, 0 while no compressor was made
    closed,     \* a.header == nil
    writable,   \* a.writer != nil
    hasFs,      \* a.settings.fs != nil
    \* the file system
    fileLen,    \* length of the container file, bytes
    disk,       \* data sections of the container file (sections 2..)
    locWords,   \* section 0: offset<<8 | size for every cell
    tsWords,    \* section 1: timestamps
    ext,        \* sibling files, by cell
    \* bookkeeping of the calls made
    stored,     \* per cell, the data of the last successful Write (0: none)
    lastOp,     \* the last call and what it returned
    panicked,   \* a call ended in a panic
    env         \* what the callers offer: compressed lengths, growth cap

fileVars == <<header, size, cm, closed, writable, hasFs, fileLen, disk,
              locWords, tsWords, ext, stored, lastOp, panicked, env>>

VARIABLES
    \* threads reading the container chunk by chunk (file.Read, file.ReadTo)
    pc,         \* "idle", or "reading" while a.mux is read-locked
    rd          \* the read in progress of each thread

rwVars == <<pc, rd>>

VARIABLES
    \* the directory cache (type Anvil, anvil.go)
    containers, \* the containers opened: [open, pos, closes]
    wrappers,   \* the cachedFile objects: [file, pos, useCount]
    inUse,      \* a.inUse: position -> cachedFile (0: no entry)
    lru,        \* a.lru: <<[pos, file]>>, most recently used first
    tpc,        \* where each thread is in get / free
    tw,         \* the cachedFile a thread holds or is releasing
    tpos,       \* the position a thread is acquiring
    \* one cached handle (type cachedFile, file_cached.go)
    gate,       \* c.closed, and counts of the calls made through the handle
                \* (in the runs on locking: the state of every mutex)
    gpc,        \* where each thread is in a call on the handle
                \* (in the runs on locking: the lock operations still to do)
    gcall       \* the last call of each thread on the handle and its result
                \* (in the runs on locking: the mutexes the thread holds)

cacheVars == <<containers, wrappers, inUse, lru, tpc, tw, tpos, gate, gpc, gcall>>

vars == <<fileVars, rwVars, cacheVars>>

Cells == {CellIndex(x, z) : x \in 0 .. (GridSide - 1), z \in 0 .. (GridSide - 1)}
Xs == 0 .. MaxX
Zs == 0 .. MaxZ
Payloads == 1 .. MaxPayload
Times == 1 .. MaxTime

NoOp == [op |-> "none", x |-> 0, z |-> 0, data |-> 0, err |-> "nil", was |-> 0]

\* newAnvil on a file of initSize bytes whose header sections are zero
newAnvil(initSize, canWrite, fs, offered) ==
    /\ header = [entries |-> [c \in Cells |-> NoEntry],
                 used |-> [bits |-> {},
                           len |-> IF initSize = 0 THEN Entries
                                   ELSE initSize \div SectionSize]]
    /\ size = initSize
    /\ cm = 0
    /\ closed = FALSE
    /\ writable = canWrite
    /\ hasFs = fs
    /\ fileLen = initSize
    /\ disk = [s \in 2 .. (initSize \div SectionSize - 1) |-> Zero]
    /\ locWords = [c \in Cells |-> 0]
    /\ tsWords = [c \in Cells |-> 0]
    /\ ext = [c \in Cells |-> NoFile]
    /\ stored = [c \in Cells |-> 0]
    /\ lastOp = NoOp
    /\ panicked = FALSE
    /\ env = offered

\* a size check that only asks for whole sections
SizeAccepted_whole(fileSize) == fileSize % SectionSize = 0

\* sizes newAnvil accepts
SizeAccepted(fileSize) ==
    ~(fileSize % SectionSize # 0 \/ (fileSize # 0 /\ fileSize < SectionSize * 2))

----------------------------------------------------------------------------
(* Reading (file.read, readEntryHeader, readerForEntry, decompressor).     *)

Garbage == -1
Result(e, d) == [err |-> e, data |-> d]

\* a FrameHeader that drops the external bit of the method byte
FrameHeader_plain(d, s) ==
    IF s \notin DOMAIN d THEN [known |-> FALSE, eof |-> TRUE, len |-> 0, mbyte |-> 0]
    ELSE IF d[s] = Zero THEN [known |-> TRUE, eof |-> FALSE, len |-> 0, mbyte |-> 0]
    ELSE IF d[s].sec = 0 /\ d[s].n >= entryHeaderSize
         THEN [known |-> TRUE, eof |-> FALSE,
               len |-> d[s].tok.length - 4,
               mbyte |-> d[s].tok.method % externalMask]
         ELSE [known |-> FALSE, eof |-> FALSE, len |-> 0, mbyte |-> 0]

\* the 5 bytes at the start of file section s: length word and method byte
FrameHeader(d, s) ==
    IF s \notin DOMAIN d THEN [known |-> FALSE, eof |-> TRUE, len |-> 0, mbyte |-> 0]
    ELSE IF d[s] = Zero THEN [known |-> TRUE, eof |-> FALSE, len |-> 0, mbyte |-> 0]
    ELSE IF d[s].sec = 0 /\ d[s].n >= entryHeaderSize
         THEN [known |-> TRUE, eof |-> FALSE,
               len |-> d[s].tok.length - 4, mbyte |-> d[s].tok.method]
         ELSE [known |-> FALSE, eof |-> FALSE, len |-> 0, mbyte |-> 0]

\* the stream file.read hands to the caller
NoStream == [external |-> FALSE, method |-> 0, off |-> 0, length |-> 0,
             cell |-> 0, tok |-> NoTok]

\* the number of pieces the caller pulls from the stream: the sections the
\* frame covers, or the sibling file as one piece
Pieces(s) == IF s.external THEN 1 ELSE sections(s.length + entryHeaderSize)

\* piece k of the stream, as the file holds it now, is piece k of the frame
\* whose header was read when the stream was made
Piece(d, fls, s, k) ==
    IF s.external
    THEN /\ fls[s.cell] # NoFile
         /\ fls[s.cell].tok = s.tok
         /\ fls[s.cell].bytes = s.tok.length - entryHeaderSize
    ELSE /\ s.length + entryHeaderSize = s.tok.length
         /\ s.off + k \in DOMAIN d
         /\ d[s.off + k] # Zero
         /\ d[s.off + k].tok = s.tok
         /\ d[s.off + k].sec = k
         /\ d[s.off + k].n >= Min(SectionSize, s.tok.length - k * SectionSize)

\* what the decompressor makes of the pieces it was given
Decompress(s, intact) ==
    IF intact /\ s.tok.method % externalMask = s.method
    THEN Result("nil", s.tok.data)
    ELSE IF s.method = CompressionNone THEN Result("nil", Garbage)
         ELSE Result("decompress", 0)

\* a file.read that decodes with the method selected for the container
read_current(h, d, x, z, isClosed, fs, fls) ==
    IF ~ValidPos(x, z) THEN [err |-> "invalid position", s |-> NoStream]
    ELSE IF isClosed THEN [err |-> "ErrClosed", s |-> NoStream]
    ELSE LET entry == h.entries[CellIndex(x, z)]
             fh    == FrameHeader(d, entry.offset)
             length == fh.len - 1
             external == fh.mbyte >= externalMask
             f == fls[CellIndex(x, z)]
         IN IF ~Exists(entry) THEN [err |-> "ErrNotExist", s |-> NoStream]
            ELSE IF fh.eof THEN [err |-> "EOF", s |-> NoStream]
            ELSE IF ~fh.known THEN [err |-> "undetermined", s |-> NoStream]
            ELSE IF TruncDiv(length, SectionSize) > entry.size
                 THEN [err |-> "ErrCorrupted", s |-> NoStream]
            ELSE IF external /\ ~fs THEN [err |-> "ErrExternal", s |-> NoStream]
            ELSE IF external /\ f = NoFile
                 THEN [err |-> "unable to open external file", s |-> NoStream]
            ELSE IF fh.mbyte % externalMask \notin Methods
                 THEN [err |-> "unsupported compression method", s |-> NoStream]
            ELSE [err |-> "nil",
                  s |-> [external |-> external, method |-> IF cm = 0 THEN CompressionZlib ELSE cm,
                         off |-> entry.offset, length |-> length,
                         cell |-> CellIndex(x, z),
                         tok |-> IF external THEN f.tok ELSE d[entry.offset].tok]]

\* file.read: the error, or the stream over the entry
read(h, d, x, z, isClosed, fs, fls) ==
    IF ~ValidPos(x, z) THEN [err |-> "invalid position", s |-> NoStream]
    ELSE IF isClosed THEN [err |-> "ErrClosed", s |-> NoStream]
    ELSE LET entry == h.entries[CellIndex(x, z)]
             fh    == FrameHeader(d, entry.offset)
             length == fh.len - 1
             external == fh.mbyte >= externalMask
             method == fh.mbyte % externalMask
             f == fls[CellIndex(x, z)]
         IN IF ~Exists(entry) THEN [err |-> "ErrNotExist", s |-> NoStream]
            ELSE IF fh.eof THEN [err |-> "EOF", s |-> NoStream]
            ELSE IF ~fh.known THEN [err |-> "undetermined", s |-> NoStream]
            ELSE IF TruncDiv(length, SectionSize) > entry.size
                 THEN [err |-> "ErrCorrupted", s |-> NoStream]
            ELSE IF external /\ ~fs THEN [err |-> "ErrExternal", s |-> NoStream]
            ELSE IF external /\ f = NoFile
                 THEN [err |-> "unable to open external file", s |-> NoStream]
            ELSE IF method \notin Methods
                 THEN [err |-> "unsupported compression method", s |-> NoStream]
            ELSE [err |-> "nil",
                  s |-> [external |-> external, method |-> method,
                         off |-> entry.offset, length |-> length,
                         cell |-> CellIndex(x, z),
                         tok |-> IF external THEN f.tok ELSE d[entry.offset].tok]]

\* file.Read with nothing else running: file.read, then the whole stream
ReadFrom(h, d, x, z, isClosed, fs, fls) ==
    LET o == read(h, d, x, z, isClosed, fs, fls)
    IN IF o.err = "undetermined" THEN Result(o.err, Garbage)
       ELSE IF o.err # "nil" THEN Result(o.err, 0)
       ELSE Decompress(o.s, \A k \in 0 .. (Pieces(o.s) - 1) : Piece(d, fls, o.s, k))

\* the sibling-file handles a file.Read of the cell opens and has closed
\* when it returns.  readerForEntry opens the file of an external entry; the
\* file is closed by decompressor.Close, that is when a gzip or zlib reader
\* was made over it: for CompressionNone the file is wrapped in io.NopCloser,
\* and when no decompressor is made read returns the error only.
ReadHandles(x, z) ==
    LET o  == read(header, disk, x, z, closed, hasFs, ext)
        fh == FrameHeader(disk, header.entries[CellIndex(x, z)].offset)
        f  == ext[CellIndex(x, z)]
        opened == \/ o.err = "nil" /\ o.s.external
                  \/ /\ o.err = "unsupported compression method"
                     /\ fh.mbyte >= externalMask
        made == /\ o.err = "nil"
                /\ o.s.method \in {CompressionGzip, CompressionZlib}
                /\ f.tok.method % externalMask = o.s.method
    IN [opened |-> IF opened THEN 1 ELSE 0,
        closed |-> IF opened /\ made THEN 1 ELSE 0]

\* file.Info: the entry of the cell and whether it is stored
Info(h, x, z) ==
    IF ~ValidPos(x, z) THEN [entry |-> NoEntry, exists |-> FALSE]
    ELSE [entry |-> h.entries[CellIndex(x, z)],
          exists |-> Exists(h.entries[CellIndex(x, z)])]

ReadResult(x, z) == ReadFrom(header, disk, x, z, closed, hasFs, ext)


----------------------------------------------------------------------------
(* Writing (file.Write, file.Remove, growFile, updateHeader, checkWrite).  *)

\* what the cell held when the call began (0: nothing)
Was(x, z) == IF ValidPos(x, z) THEN stored[CellIndex(x, z)] ELSE 0

\* a checkWrite that does not ask whether the container has a writer
checkWrite_nowriter(x, z) ==
    IF ~ValidPos(x, z) THEN "invalid position"
    ELSE IF closed THEN "ErrClosed"
    ELSE "nil"

\* checkWrite
checkWrite(x, z) ==
    IF ~ValidPos(x, z) THEN "invalid position"
    ELSE IF closed THEN "ErrClosed"
    ELSE IF ~writable THEN "ErrReadOnly"
    ELSE "nil"

\* a growFile without the room for the two header sections
growFile_nofloor(fileSize, sz) ==
    [offset |-> sections(fileSize), size |-> (sections(fileSize) + sz) * SectionSize]

\* growFile: the section where the added space starts, and the new a.size
growFile(fileSize, sz) ==
    LET offset == sections(Max(fileSize, SectionSize * 2))
    IN [offset |-> offset, size |-> (offset + sz) * SectionSize]

\* updateHeader: the byte offset of the cell's index word, int64(x)<<2 |
\* int64(z)<<7 on the 32 x 32 grid (the bits of the two terms are apart for
\* every position that passes the check before it)
headerOffset(x, z) == x * 4 + z * (4 * GridSide)

\* an updateHeader that patches the slot after the cell's own
updateHeader_next(st, idx, offset, sz, now) ==
    LET entry == [offset |-> offset, size |-> sz, timestamp |-> now]
        slot  == (idx + 1) % Entries
        set   == HeaderSet(st.header, idx, entry)
    IN IF set.panic
       THEN [header |-> st.header,
             locWords |-> [st.locWords EXCEPT ![slot] = LocWord(offset, sz)],
             tsWords |-> st.tsWords, err |-> "nil", panic |-> TRUE]
       ELSE [header |-> set.h,
             locWords |-> [st.locWords EXCEPT ![slot] = LocWord(offset, sz)],
             tsWords |-> IF set.err # "nil" THEN st.tsWords
                         ELSE [st.tsWords EXCEPT ![slot] = now],
             err |-> set.err, panic |-> FALSE]

\* updateHeader: the offset/size word is written and synced, then the
\* in-memory header is set, then the timestamp word is written and synced.
\* st is [header, locWords, tsWords]; the result adds err and panic.
updateHeader(st, idx, offset, sz, now) ==
    LET entry == [offset |-> offset, size |-> sz, timestamp |-> now]
        loc   == [st.locWords EXCEPT ![idx] = LocWord(offset, sz)]
        set   == HeaderSet(st.header, idx, entry)
    IN IF set.panic
       THEN [header |-> st.header, locWords |-> loc, tsWords |-> st.tsWords,
             err |-> "nil", panic |-> TRUE]
       ELSE IF set.err # "nil"
       THEN [header |-> set.h, locWords |-> loc, tsWords |-> st.tsWords,
             err |-> set.err, panic |-> FALSE]
       ELSE [header |-> set.h, locWords |-> loc,
             tsWords |-> [st.tsWords EXCEPT ![idx] = now],
             err |-> "nil", panic |-> FALSE]

\* file.compress: the method in use (zlib when none was chosen) and the buffer
compressMethod == IF cm = 0 THEN DefaultCompression ELSE cm

\* file.Remove after its lock is taken
RemoveBody(x, z, now, opName) ==
    LET idx == CellIndex(x, z)
        chk == checkWrite(x, z)
    IN IF chk # "nil"
       THEN /\ lastOp' = [op |-> opName, x |-> x, z |-> z, data |-> 0, err |-> chk,
                          was |-> Was(x, z)]
            /\ UNCHANGED <<header, size, cm, closed, writable, hasFs, fileLen,
                           disk, locWords, tsWords, ext, stored, panicked, env>>
       ELSE LET rm == HeaderRemove(header, idx)
            IN IF rm.err # "nil"
               THEN /\ header' = rm.h
                    /\ lastOp' = [op |-> opName, x |-> x, z |-> z, data |-> 0,
                                  err |-> rm.err,
                          was |-> Was(x, z)]
                    /\ UNCHANGED <<size, cm, closed, writable, hasFs, fileLen,
                                   disk, locWords, tsWords, ext, stored,
                                   panicked, env>>
               ELSE LET g  == growFile(size, 0)
                        up == updateHeader([header |-> rm.h, locWords |-> locWords,
                                            tsWords |-> tsWords], idx, 0, 0, now)
                    IN /\ size' = g.size
                       /\ fileLen' = g.size
                       /\ disk' = TruncateFile(disk, g.size)
                       /\ header' = up.header
                       /\ locWords' = up.locWords
                       /\ tsWords' = up.tsWords
                       /\ panicked' = up.panic
                       /\ stored' = IF up.err = "nil" /\ ~up.panic
                                    THEN [stored EXCEPT ![idx] = 0] ELSE stored
                       /\ lastOp' = [op |-> opName, x |-> x, z |-> z, data |-> 0,
                                     err |-> IF up.panic THEN "panic" ELSE up.err,
                          was |-> Was(x, z)]
                       /\ UNCHANGED <<cm, closed, writable, hasFs, ext, env>>

\* the sibling-file handles a file.Write of n compressed bytes opens and has
\* closed when it returns: the file made by fs.Create is written with
\* buf.WriteTo and no statement of Write closes it
WriteHandles(x, z, b, n) ==
    IF /\ b # 0
       /\ checkWrite(x, z) = "nil"
       /\ sections(BufLen(AppendedLength(n))) > MaxEntrySections
       /\ hasFs
    THEN [opened |-> 1, closed |-> 0]
    ELSE [opened |-> 0, closed |-> 0]

\* file.Write of the byte sequence b, whose compressed form has n bytes,
\* after its lock is taken
WriteBody(x, z, b, n, now) ==
    LET idx == CellIndex(x, z)
        chk == checkWrite(x, z)
        m   == compressMethod
        tok == [data |-> b, method |-> m, length |-> AppendedLength(n)]
        need == sections(BufLen(tok.length))
        spill == need > MaxEntrySections
        \* after a spill the buffer holds the single byte 0
        tok2 == IF spill
                THEN [data |-> 0, method |-> m + externalMask,
                      length |-> AppendedLength(1)]
                ELSE tok
        sz  == IF spill THEN 1 ELSE need
        fnd == FindSpace(header.used, sz)
        g   == growFile(size, sz)
        offset == IF fnd.found THEN fnd.offset ELSE g.offset
        size2  == IF fnd.found THEN size ELSE g.size
        len2   == IF fnd.found THEN fileLen ELSE g.size
        disk2  == IF fnd.found THEN disk ELSE TruncateFile(disk, g.size)
        up  == updateHeader([header |-> header, locWords |-> locWords,
                             tsWords |-> tsWords], idx, offset, sz, now)
    IN IF chk # "nil"
       THEN /\ lastOp' = [op |-> "Write", x |-> x, z |-> z, data |-> b, err |-> chk,
                          was |-> Was(x, z)]
            /\ UNCHANGED <<header, size, cm, closed, writable, hasFs, fileLen,
                           disk, locWords, tsWords, ext, stored, panicked, env>>
       ELSE IF spill /\ ~hasFs
       THEN /\ cm' = m
            /\ lastOp' = [op |-> "Write", x |-> x, z |-> z, data |-> b,
                          err |-> "ErrExternal",
                          was |-> Was(x, z)]
            /\ UNCHANGED <<header, size, closed, writable, hasFs, fileLen,
                           disk, locWords, tsWords, ext, stored, panicked, env>>
       ELSE /\ fnd.found \/ g.size \div SectionSize <= env.cap
            /\ cm' = m
            /\ ext' = IF spill
                      THEN [ext EXCEPT ![idx] =
                              [tok |-> tok, bytes |-> Emitted(tok.length, FALSE)]]
                      ELSE ext
            /\ size' = size2
            /\ fileLen' = len2
            /\ disk' = WriteAtFile(disk2, tok2, offset)
            /\ header' = up.header
            /\ locWords' = up.locWords
            /\ tsWords' = up.tsWords
            /\ panicked' = up.panic
            /\ stored' = IF up.err = "nil" /\ ~up.panic
                         THEN [stored EXCEPT ![idx] = b] ELSE stored
            /\ lastOp' = [op |-> "Write", x |-> x, z |-> z, data |-> b,
                          err |-> IF up.panic THEN "panic" ELSE up.err,
                          was |-> Was(x, z)]
            /\ UNCHANGED <<closed, writable, hasFs, env>>


----------------------------------------------------------------------------
(* The calls on one container, each taken as a whole (the container's      *)
(* lock is held from its first statement to its return).                   *)

\* coordinates the callers pass: the cells in use and one outside the grid
CallXs == Xs \cup {GridSide}

\* a.mux can be write-locked: no thread holds it for reading
LockFree == \A t \in DOMAIN pc : pc[t] = "idle"

Write(x, z, b, n, now) ==
    /\ ~panicked
    /\ LockFree
    /\ IF b = 0 THEN RemoveBody(x, z, now, "Write")
       ELSE WriteBody(x, z, b, n, now)
    /\ UNCHANGED <<rwVars, cacheVars>>

Remove(x, z, now) ==
    /\ ~panicked
    /\ LockFree
    /\ RemoveBody(x, z, now, "Remove")
    /\ UNCHANGED <<rwVars, cacheVars>>

\* file.Read / ReadTo / ReadWith with no other call between its steps: the
\* three differ only in how the caller receives the bytes
Read(x, z) ==
    /\ ~panicked
    /\ LET r == ReadResult(x, z)
       IN lastOp' = [op |-> "Read", x |-> x, z |-> z, data |-> r.data, err |-> r.err,
                          was |-> 0]
    /\ UNCHANGED <<header, size, cm, closed, writable, hasFs, fileLen, disk,
                   locWords, tsWords, ext, stored, panicked, env>>
    /\ UNCHANGED <<rwVars, cacheVars>>

\* file.CompressionMethod
CompressionMethod(m) ==
    /\ ~panicked
    /\ LockFree
    /\ IF closed
       THEN /\ lastOp' = [op |-> "CompressionMethod", x |-> 0, z |-> 0,
                          data |-> m, err |-> "ErrClosed",
                          was |-> 0]
            /\ UNCHANGED cm
       ELSE IF m \notin Methods
       THEN /\ lastOp' = [op |-> "CompressionMethod", x |-> 0, z |-> 0,
                          data |-> m, err |-> "unsupported compression method",
                          was |-> 0]
            /\ UNCHANGED cm
       ELSE /\ lastOp' = [op |-> "CompressionMethod", x |-> 0, z |-> 0,
                          data |-> m, err |-> "nil",
                          was |-> 0]
            /\ cm' = m
    /\ UNCHANGED <<header, size, closed, writable, hasFs, fileLen, disk,
                   locWords, tsWords, ext, stored, panicked, env>>
    /\ UNCHANGED <<rwVars, cacheVars>>

\* a Close that does not wait for the threads that are reading
Close_eager ==
    /\ ~panicked
    /\ closed' = TRUE
    /\ lastOp' = [op |-> "Close", x |-> 0, z |-> 0,
                  data |-> IF closed THEN 0 ELSE 1, err |-> "nil", was |-> 0]
    /\ UNCHANGED <<header, size, cm, writable, hasFs, fileLen, disk,
                   locWords, tsWords, ext, stored, panicked, env>>
    /\ UNCHANGED <<rwVars, cacheVars>>

\* file.Close: on an open container the header goes back to its pool, the
\* writer is synced and the reader closed (the calls succeed); on a closed one
\* nothing is done.  The data of the call records the number of times the
\* reader was closed by it.
Close ==
    /\ ~panicked
    /\ LockFree
    /\ closed' = TRUE
    /\ lastOp' = [op |-> "Close", x |-> 0, z |-> 0,
                  data |-> IF closed THEN 0 ELSE 1, err |-> "nil", was |-> 0]
    /\ UNCHANGED <<header, size, cm, writable, hasFs, fileLen, disk,
                   locWords, tsWords, ext, stored, panicked, env>>
    /\ UNCHANGED <<rwVars, cacheVars>>

\* file.Close on an open writable container whose writer.Sync fails: the
\* header is already given back and a.header is nil when the error returns,
\* and the reader is not closed.
CloseFail ==
    /\ ~panicked
    /\ LockFree
    /\ ~closed
    /\ writable
    /\ closed' = TRUE
    /\ lastOp' = [op |-> "Close", x |-> 0, z |-> 0,
                  data |-> 0, err |-> "sync error", was |-> 0]
    /\ UNCHANGED <<header, size, cm, writable, hasFs, fileLen, disk,
                   locWords, tsWords, ext, stored, panicked, env>>
    /\ UNCHANGED <<rwVars, cacheVars>>

\* file.Info as a call: it takes no lock, so it runs whatever else is running.
\* On a closed container a.header is nil and a.header.Get dereferences it.
InfoCall(x, z) ==
    /\ ~panicked
    /\ IF ~ValidPos(x, z)
       THEN /\ lastOp' = [op |-> "Info", x |-> x, z |-> z, data |-> 0,
                          err |-> "nil", was |-> 0]
            /\ UNCHANGED panicked
       ELSE IF closed
       THEN /\ lastOp' = [op |-> "Info", x |-> x, z |-> z, data |-> 0,
                          err |-> "panic", was |-> 0]
            /\ panicked' = TRUE
       ELSE /\ lastOp' = [op |-> "Info", x |-> x, z |-> z,
                          data |-> IF Info(header, x, z).exists
                                   THEN stored[CellIndex(x, z)] ELSE 0,
                          err |-> "nil", was |-> 0]
            /\ UNCHANGED panicked
    /\ UNCHANGED <<header, size, cm, closed, writable, hasFs, fileLen, disk,
                   locWords, tsWords, ext, stored, env>>
    /\ UNCHANGED <<rwVars, cacheVars>>

\* file.Close followed by newAnvil on the same file with the same settings:
\* a file of length 0 gives an empty header without a read, any other length
\* is loaded from the two header sections.  canWrite: the file is opened
\* for writing (the readonly flag is not set); fs: it is opened with a file
\* system for its sibling files (Open, ReadAnvil) or without one (OpenFile).
ReopenAs(canWrite, fs) ==
    /\ ~panicked
    /\ LockFree
    /\ LET ld == HeaderLoad(locWords, tsWords, fileLen \div SectionSize)
       IN IF ~SizeAccepted(fileLen)
          THEN /\ closed' = TRUE
               /\ lastOp' = [op |-> "Reopen", x |-> 0, z |-> 0, data |-> 0,
                              err |-> "ErrSize", was |-> 0]
               /\ UNCHANGED <<header, size, cm>>
          ELSE IF fileLen = 0
          THEN /\ header' = [entries |-> [c \in Cells |-> NoEntry],
                              used |-> [bits |-> {}, len |-> Entries]]
               /\ size' = 0
               /\ cm' = 0
               /\ closed' = FALSE
               /\ lastOp' = [op |-> "Reopen", x |-> 0, z |-> 0, data |-> 0,
                              err |-> "nil", was |-> 0]
          ELSE IF ld.err # "nil"
          THEN /\ closed' = TRUE
               /\ lastOp' = [op |-> "Reopen", x |-> 0, z |-> 0, data |-> 0,
                              err |-> ld.err, was |-> 0]
               /\ UNCHANGED <<header, size, cm>>
          ELSE /\ header' = ld.h
               /\ size' = fileLen
               /\ cm' = 0
               /\ closed' = FALSE
               /\ lastOp' = [op |-> "Reopen", x |-> 0, z |-> 0, data |-> 0,
                              err |-> "nil", was |-> 0]
    /\ writable' = canWrite
    /\ hasFs' = fs
    /\ UNCHANGED <<fileLen, disk, locWords, tsWords, ext,
                   stored, panicked, env>>
    /\ UNCHANGED <<rwVars, cacheVars>>

\* the container is closed and opened again the way it was opened before
Reopen == ReopenAs(writable, hasFs)

\* file.Write of a frame that fits an entry, cut short by a crash after k of
\* its events: 1 payload WriteAt, 2 Sync, 3 index word WriteAt, 4 Sync,
\* 5 Header.Set, 6 timestamp word WriteAt (the Sync that follows ends the
\* call).  kept: the write that was not yet synced reached the disk.  What
\* was in memory is lost; the file stays as the crash left it.
WriteCrash(x, z, b, n, now, k, kept) ==
    LET idx == CellIndex(x, z)
        tok == [data |-> b, method |-> compressMethod, length |-> AppendedLength(n)]
        sz  == sections(BufLen(tok.length))
        fnd == FindSpace(header.used, sz)
        g   == growFile(size, sz)
        offset == IF fnd.found THEN fnd.offset ELSE g.offset
        disk2  == IF fnd.found THEN disk ELSE TruncateFile(disk, g.size)
        payload == k >= 2 \/ (k = 1 /\ kept)
        word    == k >= 4 \/ (k = 3 /\ kept)
        stamp   == k = 6 /\ kept
    IN /\ ~panicked
       /\ LockFree
       /\ checkWrite(x, z) = "nil"
       /\ sz <= MaxEntrySections
       /\ fnd.found \/ g.size \div SectionSize <= env.cap
       /\ fileLen' = IF fnd.found THEN fileLen ELSE g.size
       /\ disk' = IF payload THEN WriteAtFile(disk2, tok, offset) ELSE disk2
       /\ locWords' = IF word THEN [locWords EXCEPT ![idx] = LocWord(offset, sz)]
                      ELSE locWords
       /\ tsWords' = IF stamp THEN [tsWords EXCEPT ![idx] = now] ELSE tsWords
       /\ stored' = IF word THEN [stored EXCEPT ![idx] = b] ELSE stored
       /\ closed' = TRUE
       /\ lastOp' = [op |-> "Crash", x |-> x, z |-> z, data |-> b, err |-> "nil",
                     was |-> Was(x, z)]
       /\ UNCHANGED <<header, size, cm, writable, hasFs, ext, panicked, env>>
       /\ UNCHANGED <<rwVars, cacheVars>>

\* file.Write (file.Remove when b = 0) in which the k-th call on the file
\* returns an error: 1 Truncate, 2 payload WriteAt, 3 Sync, 4 index word
\* WriteAt, 5 Sync, 6 timestamp word WriteAt, 7 Sync.  kept: what the failed
\* call, or the write before the failed Sync, was to put in the file is
\* there all the same.  The frame fits an entry.
WriteFail(x, z, b, n, now, k, kept) ==
    LET idx == CellIndex(x, z)
        tok == [data |-> b, method |-> compressMethod, length |-> AppendedLength(n)]
        sz  == IF b = 0 THEN 0 ELSE sections(BufLen(tok.length))
        rm  == HeaderRemove(header, idx)
        h1  == IF b = 0 THEN rm.h ELSE header
        fnd == IF b = 0 THEN [offset |-> 0, found |-> FALSE]
               ELSE FindSpace(header.used, sz)
        g   == growFile(size, sz)
        grows  == ~fnd.found
        offset == IF b = 0 THEN 0 ELSE IF fnd.found THEN fnd.offset ELSE g.offset
        done(j) == k > j \/ (k = j /\ kept)
        len2   == IF grows /\ done(1) THEN g.size ELSE fileLen
        disk2  == IF grows /\ done(1) THEN TruncateFile(disk, g.size) ELSE disk
        set    == HeaderSet(h1, idx, [offset |-> offset, size |-> sz,
                                      timestamp |-> now])
    IN /\ ~panicked
       /\ LockFree
       /\ checkWrite(x, z) = "nil"
       /\ b = 0 => rm.err = "nil" /\ k \notin {2, 3}
       /\ sz <= MaxEntrySections
       /\ k = 1 => grows
       /\ ~grows \/ g.size \div SectionSize <= env.cap
       /\ k >= 6 => set.err = "nil" /\ ~set.panic
       /\ size' = IF grows THEN g.size ELSE size
       /\ fileLen' = len2
       /\ disk' = IF b # 0 /\ (k > 3 \/ (k \in {2, 3} /\ kept))
                  THEN WriteAtFile(disk2, tok, offset) ELSE disk2
       /\ locWords' = IF k > 5 \/ (k \in {4, 5} /\ kept)
                      THEN [locWords EXCEPT ![idx] = LocWord(offset, sz)]
                      ELSE locWords
       /\ header' = IF k >= 6 THEN set.h ELSE h1
       /\ tsWords' = IF k >= 6 /\ kept THEN [tsWords EXCEPT ![idx] = now]
                     ELSE tsWords
       /\ cm' = IF b = 0 THEN cm ELSE compressMethod
       /\ stored' = IF k >= 6 \/ b = 0 THEN [stored EXCEPT ![idx] = b] ELSE stored
       /\ lastOp' = [op |-> "Write", x |-> x, z |-> z, data |-> b,
                     err |-> "write error", was |-> Was(x, z)]
       /\ UNCHANGED <<closed, writable, hasFs, ext, panicked, env>>
       /\ UNCHANGED <<rwVars, cacheVars>>

----------------------------------------------------------------------------
(* file.Read / ReadTo step by step: a.mux.RLock, file.read, the pieces the *)
(* sink pulls from the stream, src.Close and a.mux.RUnlock.                *)

Readers == 1 .. NumReaders

NoRead == [x |-> 0, z |-> 0, s |-> NoStream, k |-> 0, intact |-> TRUE,
           expect |-> 0]

\* a ReadBegin that takes a.mux for writing: it waits for every other reader
ReadBegin_exclusive(t, x, z) ==
    /\ ~panicked
    /\ LockFree
    /\ LET o == read(header, disk, x, z, closed, hasFs, ext)
       IN /\ o.err = "nil"
          /\ rd' = [rd EXCEPT ![t] = [x |-> x, z |-> z, s |-> o.s, k |-> 0,
                                      intact |-> TRUE,
                                      expect |-> stored[CellIndex(x, z)]]]
    /\ pc' = [pc EXCEPT ![t] = "reading"]
    /\ UNCHANGED <<fileVars, cacheVars>>

\* RLock and file.read; a read that fails here is the call Read above
ReadBegin(t, x, z) ==
    /\ ~panicked
    /\ pc[t] = "idle"
    /\ LET o == read(header, disk, x, z, closed, hasFs, ext)
       IN /\ o.err = "nil"
          /\ rd' = [rd EXCEPT ![t] = [x |-> x, z |-> z, s |-> o.s, k |-> 0,
                                      intact |-> TRUE,
                                      expect |-> stored[CellIndex(x, z)]]]
    /\ pc' = [pc EXCEPT ![t] = "reading"]
    /\ UNCHANGED <<fileVars, cacheVars>>

\* the sink pulls the next piece of the stream from the file
ReadPiece(t) ==
    /\ pc[t] = "reading"
    /\ rd[t].k < Pieces(rd[t].s)
    /\ rd' = [rd EXCEPT ![t].k = @ + 1,
                        ![t].intact = @ /\ Piece(disk, ext, rd[t].s, rd[t].k)]
    /\ UNCHANGED <<pc, fileVars, cacheVars>>

\* end of stream: src.Close, RUnlock, the call returns
ReadEnd(t) ==
    /\ pc[t] = "reading"
    /\ rd[t].k = Pieces(rd[t].s)
    /\ LET r == Decompress(rd[t].s, rd[t].intact)
       IN lastOp' = [op |-> "Read", x |-> rd[t].x, z |-> rd[t].z,
                     data |-> r.data, err |-> r.err,
                          was |-> 0]
    /\ pc' = [pc EXCEPT ![t] = "idle"]
    /\ rd' = [rd EXCEPT ![t] = NoRead]
    /\ UNCHANGED <<header, size, cm, closed, writable, hasFs, fileLen, disk,
                   locWords, tsWords, ext, stored, panicked, env>>
    /\ UNCHANGED cacheVars

----------------------------------------------------------------------------
(* The directory cache (Anvil.get, Anvil.free, Anvil.getFile).  A section  *)
(* of code under a.mux.Lock is one step; so is a section under a.mux.RLock, *)
(* whose only effect is one atomic add.  Between the two sections of get   *)
(* and of free the lock is released and other threads run.                 *)

Threads == 1 .. NumThreads
Positions == 1 .. NumPositions
\* cachedFile objects that can be reachable at once: one per map entry and
\* one per thread
WrapperIds == 1 .. (NumPositions + NumThreads)

NoWrapper == [file |-> 0, pos |-> 0, useCount |-> 0]

\* the cachedFile objects reachable from the map nu and the threads' ntw
Reachable(nu, ntw) ==
    ({nu[p] : p \in Positions} \cup {ntw[t] : t \in Threads}) \ {0}

\* simplelru: the index of key in the list (0: absent)
LruIndex(l, key) ==
    IF \E i \in 1 .. Len(l) : l[i].pos = key
    THEN CHOOSE i \in 1 .. Len(l) : l[i].pos = key
    ELSE 0

\* simplelru.Remove
LruRemove(l, key) ==
    LET i == LruIndex(l, key)
    IN IF i = 0 THEN l ELSE SubSeq(l, 1, i - 1) \o SubSeq(l, i + 1, Len(l))

\* simplelru.Add: an existing key is updated and moved to the front; a new
\* key is pushed to the front and the oldest entry dropped beyond the size
LruAdd(l, key, file) ==
    LET pushed == <<[pos |-> key, file |-> file]>> \o LruRemove(l, key)
    IN IF LruIndex(l, key) = 0 /\ Len(pushed) > LruSize
       THEN [l |-> SubSeq(pushed, 1, Len(pushed) - 1), evicted |-> TRUE]
       ELSE [l |-> pushed, evicted |-> FALSE]

\* File.Close called by the cache on container c
CloseContainer(cs, c) == [cs EXCEPT ![c].open = FALSE, ![c].closes = @ + 1]

\* the state after a step; cachedFile objects no longer reachable are
\* collected
CacheStep(ncs, nws, nu, nl, npc, ntw, ntp) ==
    /\ containers' = ncs
    /\ wrappers' = [w \in WrapperIds |->
                      IF w \in Reachable(nu, ntw) THEN nws[w] ELSE NoWrapper]
    /\ inUse' = nu
    /\ lru' = nl
    /\ tpc' = npc
    /\ tw' = ntw
    /\ tpos' = ntp
    /\ UNCHANGED <<gate, gpc, gcall>>
    /\ UNCHANGED <<fileVars, rwVars>>

\* getFile under the lock held by the caller: the map entry, its count
\* raised by one when there is one
getFile(ws, rg) ==
    IF inUse[rg] # 0
    THEN [ok |-> TRUE, f |-> inUse[rg],
          ws |-> [ws EXCEPT ![inUse[rg]].useCount = @ + 1]]
    ELSE [ok |-> FALSE, f |-> 0, ws |-> ws]

\* Anvil.get, first section: RLock, getFile, RUnlock
GetFast(t, rg) ==
    /\ tpc[t] = "idle"
    /\ LET g == getFile(wrappers, rg)
       IN IF g.ok
          THEN CacheStep(containers, g.ws, inUse, lru,
                         [tpc EXCEPT ![t] = "held"],
                         [tw EXCEPT ![t] = g.f], tpos)
          ELSE CacheStep(containers, wrappers, inUse, lru,
                         [tpc EXCEPT ![t] = "get"], tw,
                         [tpos EXCEPT ![t] = rg])

\* a GetSlow that does not look at the map again after taking the lock
GetSlow_unchecked(t) ==
    /\ tpc[t] = "get"
    /\ LET rg == tpos[t]
           i  == LruIndex(lru, rg)
           c  == IF i # 0 THEN lru[i].file ELSE Len(containers) + 1
           w  == SetMin(WrapperIds \ Reachable(inUse, tw))
       IN /\ i # 0 \/ Len(containers) < MaxOpens
          /\ CacheStep(IF i # 0 THEN containers
                        ELSE Append(containers,
                                    [open |-> TRUE, pos |-> rg, closes |-> 0]),
                       [wrappers EXCEPT ![w] =
                           [file |-> c, pos |-> rg, useCount |-> 1]],
                       [inUse EXCEPT ![rg] = w],
                       LruRemove(lru, rg),
                       [tpc EXCEPT ![t] = "held"],
                       [tw EXCEPT ![t] = w],
                       [tpos EXCEPT ![t] = 0])

\* Anvil.get, second section: Lock, getFile again, then the LRU, then the
\* filesystem (the open succeeds)
GetSlow(t) ==
    /\ tpc[t] = "get"
    /\ LET rg == tpos[t]
           g  == getFile(wrappers, rg)
           i  == LruIndex(lru, rg)
           c  == IF i # 0 THEN lru[i].file ELSE Len(containers) + 1
           w  == SetMin(WrapperIds \ Reachable(inUse, tw))
       IN IF g.ok
          THEN CacheStep(containers, g.ws, inUse, lru,
                         [tpc EXCEPT ![t] = "held"],
                         [tw EXCEPT ![t] = g.f],
                         [tpos EXCEPT ![t] = 0])
          ELSE /\ i # 0 \/ Len(containers) < MaxOpens
               /\ CacheStep(IF i # 0 THEN containers
                             ELSE Append(containers,
                                         [open |-> TRUE, pos |-> rg, closes |-> 0]),
                            [wrappers EXCEPT ![w] =
                                [file |-> c, pos |-> rg, useCount |-> 1]],
                            [inUse EXCEPT ![rg] = w],
                            LruRemove(lru, rg),
                            [tpc EXCEPT ![t] = "held"],
                            [tw EXCEPT ![t] = w],
                            [tpos EXCEPT ![t] = 0])

\* Anvil.free, first section: RLock, the count is lowered, RUnlock
FreeFast(t) ==
    /\ tpc[t] = "held"
    /\ LET w  == tw[t]
           ws == [wrappers EXCEPT ![w].useCount = @ - 1]
       IN IF ws[w].useCount = 0
          THEN CacheStep(containers, ws, inUse, lru,
                         [tpc EXCEPT ![t] = "free"], tw, tpos)
          ELSE CacheStep(containers, ws, inUse, lru,
                         [tpc EXCEPT ![t] = "idle"],
                         [tw EXCEPT ![t] = 0], tpos)

\* Anvil.free, second section: Lock; when the count is (still, or again) 0
\* the oldest idle container is evicted and closed if the LRU is full, the
\* container is added to the LRU and the map entry of its position deleted
FreeSlow(t) ==
    /\ tpc[t] = "free"
    /\ LET w    == tw[t]
           full == Len(lru) = LruSize
           old  == lru[Len(lru)].file
           l1   == IF full THEN SubSeq(lru, 1, Len(lru) - 1) ELSE lru
           cs1  == IF full THEN CloseContainer(containers, old) ELSE containers
           add  == LruAdd(l1, wrappers[w].pos, wrappers[w].file)
       IN IF wrappers[w].useCount = 0
          THEN /\ IF full THEN containers[old].closes < MaxCloses ELSE TRUE
               /\ CacheStep(cs1, wrappers,
                            [inUse EXCEPT ![wrappers[w].pos] = 0], add.l,
                            [tpc EXCEPT ![t] = IF add.evicted THEN "panic"
                                               ELSE "idle"],
                            [tw EXCEPT ![t] = 0], tpos)
          ELSE CacheStep(containers, wrappers, inUse, lru,
                         [tpc EXCEPT ![t] = "idle"],
                         [tw EXCEPT ![t] = 0], tpos)

\* Anvil.free, second section, with the call that made it and the outcome of
\* closing the evicted container.  via: cachedFile.Close returns what free
\* returns; Anvil.Read and Anvil.Write run free in a defer statement, which
\* drops what free returns, and return what the call on the handle returned
\* (nil here).  fails: File.Close of the evicted container returns an error.
FreeSlowVia(t, via, fails) ==
    /\ tpc[t] = "free"
    /\ LET w    == tw[t]
           full == Len(lru) = LruSize
           old  == lru[Len(lru)].file
           l1   == IF full THEN SubSeq(lru, 1, Len(lru) - 1) ELSE lru
           cs1  == IF full THEN CloseContainer(containers, old) ELSE containers
           add  == LruAdd(l1, wrappers[w].pos, wrappers[w].file)
           evict == wrappers[w].useCount = 0 /\ full
           err  == IF evict /\ fails THEN "error occurred while evicting file"
                   ELSE "nil"
       IN /\ fails => evict
          /\ gcall' = [gcall EXCEPT ![t] =
                         [op |-> via, free |-> err,
                          err |-> IF via = "Close" THEN err ELSE "nil"]]
          /\ IF wrappers[w].useCount = 0
             THEN /\ IF full THEN containers[old].closes < MaxCloses ELSE TRUE
                  /\ containers' = cs1
                  /\ inUse' = [inUse EXCEPT ![wrappers[w].pos] = 0]
                  /\ lru' = add.l
                  /\ tpc' = [tpc EXCEPT ![t] = IF add.evicted THEN "panic"
                                               ELSE "idle"]
             ELSE /\ tpc' = [tpc EXCEPT ![t] = "idle"]
                  /\ UNCHANGED <<containers, inUse, lru>>
          /\ tw' = [tw EXCEPT ![t] = 0]
          /\ wrappers' = [x \in WrapperIds |->
                            IF x \in Reachable(inUse', tw') THEN wrappers[x]
                            ELSE NoWrapper]
    /\ UNCHANGED <<tpos, gate, gpc>>
    /\ UNCHANGED <<fileVars, rwVars>>

----------------------------------------------------------------------------
(* A cached handle (cachedFile, file_cached.go).  Every call takes          *)
(* c.closeMux: Close for writing, the others for reading.  The call passed  *)
(* on to the container is one of the calls above; here only its beginning   *)
(* and its end are kept.                                                    *)

\* the calls that take c.closeMux for reading
CachedCalls == {"Read", "Write", "Remove", "CompressionMethod", "Info"}

NoCall == [op |-> "none", err |-> "nil"]

\* c.closeMux can be read-locked: no Close holds it
GateRLockFree == \A t \in Threads : gpc[t] # "closing"

\* c.closeMux can be write-locked: no call holds it
GateLockFree == \A t \in Threads : gpc[t] = "idle"

\* Read, Write, Remove, CompressionMethod, Info: RLock; a closed handle
\* returns ErrClosed (Info: the zero values) and unlocks, an open one passes
\* the call on to the container
CachedBegin(t, op) ==
    /\ gpc[t] = "idle"
    /\ GateRLockFree
    /\ IF gate.closed
       THEN /\ gcall' = [gcall EXCEPT ![t] =
                           [op |-> op,
                            err |-> IF op = "Info" THEN "zero" ELSE "ErrClosed"]]
            /\ UNCHANGED <<gate, gpc>>
       ELSE /\ gate.calls < MaxGateCalls
            /\ gate' = [gate EXCEPT !.calls = @ + 1]
            /\ gpc' = [gpc EXCEPT ![t] = "in"]
            /\ gcall' = [gcall EXCEPT ![t] = [op |-> op, err |-> "pending"]]
    /\ UNCHANGED <<containers, wrappers, inUse, lru, tpc, tw, tpos>>
    /\ UNCHANGED <<fileVars, rwVars>>

\* the call on the container returns; RUnlock
CachedEnd(t) ==
    /\ gpc[t] = "in"
    /\ gpc' = [gpc EXCEPT ![t] = "idle"]
    /\ gcall' = [gcall EXCEPT ![t].err = "nil"]
    /\ UNCHANGED gate
    /\ UNCHANGED <<containers, wrappers, inUse, lru, tpc, tw, tpos>>
    /\ UNCHANGED <<fileVars, rwVars>>

\* cachedFile.Close: c.closeMux.Lock
CachedCloseLock(t) ==
    /\ gpc[t] = "idle"
    /\ GateLockFree
    /\ gate.closes < MaxCloses
    /\ gate' = [gate EXCEPT !.closes = @ + 1]
    /\ gpc' = [gpc EXCEPT ![t] = "closing"]
    /\ gcall' = [gcall EXCEPT ![t] = [op |-> "Close", err |-> "pending"]]
    /\ UNCHANGED <<containers, wrappers, inUse, lru, tpc, tw, tpos>>
    /\ UNCHANGED <<fileVars, rwVars>>

\* a Close that hands the container to the cache on every call
CachedClose_always(t) ==
    /\ gpc[t] = "closing"
    /\ gate' = [gate EXCEPT !.closed = TRUE, !.released = @ + 1]
    /\ gpc' = [gpc EXCEPT ![t] = "idle"]
    /\ gcall' = [gcall EXCEPT ![t].err = "nil"]
    /\ UNCHANGED <<containers, wrappers, inUse, lru, tpc, tw, tpos>>
    /\ UNCHANGED <<fileVars, rwVars>>

\* cachedFile.Close under the lock: the container is handed to the cache
\* (cache.free) unless the handle is closed already; Unlock
CachedClose(t) ==
    /\ gpc[t] = "closing"
    /\ gate' = IF gate.closed THEN gate
               ELSE [gate EXCEPT !.closed = TRUE, !.released = @ + 1]
    /\ gpc' = [gpc EXCEPT ![t] = "idle"]
    /\ gcall' = [gcall EXCEPT ![t].err = "nil"]
    /\ UNCHANGED <<containers, wrappers, inUse, lru, tpc, tw, tpos>>
    /\ UNCHANGED <<fileVars, rwVars>>

----------------------------------------------------------------------------
(* The mutexes: Anvil.mux ("cache"), cachedFile.closeMux of the handle of a *)
(* position ("gate") and file.mux of its container ("file").  A mutex is    *)
(* [r: the threads holding it for reading, w: the thread holding it for     *)
(* writing or 0, p: the threads waiting in Lock].  As in sync.RWMutex a     *)
(* thread waiting in Lock keeps new readers out.                            *)

\* a LockProgram in which file.Write releases the container while it holds
\* file.mux
LockProgram_nested(call, p, slow, q) ==
    LET Op(do, k, pos) == [do |-> do, on |-> [k |-> k, p |-> pos]]
    IN <<Op("RLock", "gate", p), Op("Lock", "file", p),
         Op("RLock", "cache", 0), Op("RUnlock", "cache", 0),
         Op("Lock", "cache", 0), Op("Unlock", "cache", 0),
         Op("Unlock", "file", p), Op("RUnlock", "gate", p)>>

\* the lock operations of a call, in the order the code performs them.
\* p: the position of the handle; slow: get and free go on to their locked
\* section; q: the position of the container free evicts and closes (0: none)
LockProgram(call, p, slow, q) ==
    LET Op(do, k, pos) == [do |-> do, on |-> [k |-> k, p |-> pos]]
        fast == <<Op("RLock", "cache", 0), Op("RUnlock", "cache", 0)>>
        get  == fast \o (IF slow THEN <<Op("Lock", "cache", 0),
                                        Op("Unlock", "cache", 0)>>
                         ELSE <<>>)
        free == fast \o (IF slow
                         THEN <<Op("Lock", "cache", 0)>>
                              \o (IF q # 0 THEN <<Op("Lock", "file", q),
                                                  Op("Unlock", "file", q)>>
                                  ELSE <<>>)
                              \o <<Op("Unlock", "cache", 0)>>
                         ELSE <<>>)
    IN CASE call = "Acquire" -> get
         [] call = "Release" -> free
         [] call = "Read" -> <<Op("RLock", "gate", p), Op("RLock", "file", p),
                               Op("RUnlock", "file", p), Op("RUnlock", "gate", p)>>
         [] call \in {"Write", "Remove"} ->
               <<Op("RLock", "gate", p), Op("Lock", "file", p),
                 Op("Unlock", "file", p), Op("RUnlock", "gate", p)>>
         [] call = "Close" -> <<Op("Lock", "gate", p)>> \o free
                                 \o <<Op("Unlock", "gate", p)>>

\* a thread that is in no call begins one
LockStart(t, call, p, slow, q) ==
    /\ gpc[t] = <<>>
    /\ gpc' = [gpc EXCEPT ![t] = LockProgram(call, p, slow, q)]
    /\ UNCHANGED <<gate, gcall>>
    /\ UNCHANGED <<containers, wrappers, inUse, lru, tpc, tw, tpos>>
    /\ UNCHANGED <<fileVars, rwVars>>

\* the next lock operation of the call of thread t.  Lock first makes the
\* thread known as waiting, then takes the mutex once nobody holds it.
LockStep(t) ==
    /\ gpc[t] # <<>>
    /\ LET o == Head(gpc[t])
           m == gate[o.on]
       IN CASE o.do = "RLock" ->
                 /\ m.w = 0 /\ m.p = {}
                 /\ gate' = [gate EXCEPT ![o.on].r = @ \cup {t}]
                 /\ gcall' = [gcall EXCEPT ![t] = Append(@, o.on)]
                 /\ gpc' = [gpc EXCEPT ![t] = Tail(@)]
            [] o.do = "Lock" /\ t \notin m.p ->
                 /\ gate' = [gate EXCEPT ![o.on].p = @ \cup {t}]
                 /\ UNCHANGED <<gcall, gpc>>
            [] o.do = "Lock" /\ t \in m.p ->
                 /\ m.w = 0 /\ m.r = {}
                 /\ gate' = [gate EXCEPT ![o.on].w = t, ![o.on].p = @ \ {t}]
                 /\ gcall' = [gcall EXCEPT ![t] = Append(@, o.on)]
                 /\ gpc' = [gpc EXCEPT ![t] = Tail(@)]
            [] o.do = "RUnlock" ->
                 /\ gate' = [gate EXCEPT ![o.on].r = @ \ {t}]
                 /\ gcall' = [gcall EXCEPT ![t] = SelectSeq(@, LAMBDA l : l # o.on)]
                 /\ gpc' = [gpc EXCEPT ![t] = Tail(@)]
            [] o.do = "Unlock" ->
                 /\ gate' = [gate EXCEPT ![o.on].w = 0]
                 /\ gcall' = [gcall EXCEPT ![t] = SelectSeq(@, LAMBDA l : l # o.on)]
                 /\ gpc' = [gpc EXCEPT ![t] = Tail(@)]
    /\ UNCHANGED <<containers, wrappers, inUse, lru, tpc, tw, tpos>>
    /\ UNCHANGED <<fileVars, rwVars>>

\* compressed lengths offered in the small runs: frames of 4096 and 4097
\* bytes (exactly one section, and one byte into a second section)
SmallLens == {SectionSize - entryHeaderSize, SectionSize - entryHeaderSize + 1}

InitSizes == {0} \cup {k * SectionSize : k \in 2 .. MaxInitSections}

\* no thread is reading
InitReaders ==
    /\ pc = [t \in Readers |-> "idle"]
    /\ rd = [t \in Readers |-> NoRead]

\* no cached handle is part of the run
NoGate ==
    /\ gate = <<>>
    /\ gpc = <<>>
    /\ gcall = <<>>

\* the directory cache is not part of the runs on one container
NoCache ==
    /\ containers = <<>>
    /\ wrappers = <<>>
    /\ inUse = <<>>
    /\ lru = <<>>
    /\ tpc = <<>>
    /\ tw = <<>>
    /\ tpos = <<>>
    /\ NoGate

Init ==
    /\ \E initSize \in InitSizes, canWrite \in BOOLEAN :
          /\ SizeAccepted(initSize)
          /\ newAnvil(initSize, canWrite, TRUE,
                      [lens |-> SmallLens, cap |-> MaxSections])
    /\ InitReaders
    /\ NoCache

Next ==
    \/ \E x \in CallXs, z \in Zs, b \in 0 .. MaxPayload, n \in env.lens, now \in Times :
          Write(x, z, b, n, now)
    \/ \E x \in CallXs, z \in Zs, now \in Times : Remove(x, z, now)
    \/ \E x \in CallXs, z \in Zs : Read(x, z)
    \/ \E m \in Methods \cup {0} : CompressionMethod(m)
    \/ Close

Spec == Init /\ [][Next]_vars

\* a writable container is written, closed and opened again
InitReopen ==
    /\ \E initSize \in InitSizes :
          newAnvil(initSize, TRUE, TRUE, [lens |-> SmallLens, cap |-> MaxSections])
    /\ InitReaders
    /\ NoCache

NextReopen ==
    \/ \E x \in Xs, z \in Zs, b \in Payloads, n \in env.lens, now \in Times :
          Write(x, z, b, n, now)
    \/ \E x \in Xs, z \in Zs, now \in Times : Remove(x, z, now)
    \/ \E x \in Xs, z \in Zs : Read(x, z)
    \/ Reopen

SpecReopen == InitReopen /\ [][NextReopen]_vars

\* a writable container is written, asked for the entries it holds, and
\* closed
InitInfo ==
    /\ \E initSize \in InitSizes :
          newAnvil(initSize, TRUE, TRUE, [lens |-> SmallLens, cap |-> MaxSections])
    /\ InitReaders
    /\ NoCache

NextInfo ==
    \/ \E x \in Xs, z \in Zs, b \in Payloads, n \in env.lens, now \in Times :
          Write(x, z, b, n, now)
    \/ \E x \in Xs, z \in Zs, now \in Times : Remove(x, z, now)
    \/ \E x \in CallXs, z \in Zs : InfoCall(x, z)
    \/ Close

SpecInfo == InitInfo /\ [][NextInfo]_vars

\* a container is written, closed, and opened again for reading only or for
\* writing
InitReadOnly ==
    /\ \E initSize \in InitSizes :
          newAnvil(initSize, TRUE, TRUE, [lens |-> SmallLens, cap |-> MaxSections])
    /\ InitReaders
    /\ NoCache

NextReadOnly ==
    \/ \E x \in Xs, z \in Zs, b \in 0 .. MaxPayload, n \in env.lens, now \in Times :
          Write(x, z, b, n, now)
    \/ \E x \in Xs, z \in Zs, now \in Times : Remove(x, z, now)
    \/ \E x \in Xs, z \in Zs : Read(x, z)
    \/ \E canWrite \in BOOLEAN : ReopenAs(canWrite, hasFs)

SpecReadOnly == InitReadOnly /\ [][NextReadOnly]_vars

\* compressed lengths of a small frame and of the first frame that does not
\* fit an entry
StandaloneLens == {SectionSize - entryHeaderSize - 1,
                   MaxEntrySections * SectionSize - entryHeaderSize + 1}

\* a container is written, closed, and opened again with or without a file
\* system for its sibling files
InitStandalone ==
    /\ \E fs \in BOOLEAN :
          newAnvil(0, TRUE, fs, [lens |-> StandaloneLens, cap |-> MaxSections])
    /\ InitReaders
    /\ NoCache

NextStandalone ==
    \/ \E x \in Xs, z \in Zs, n \in env.lens, now \in Times :
          Write(x, z, MaxPayload, n, now)
    \/ \E x \in Xs, z \in Zs, now \in Times : Remove(x, z, now)
    \/ \E x \in Xs, z \in Zs : Read(x, z)
    \/ \E fs \in BOOLEAN : ReopenAs(TRUE, fs)

SpecStandalone == InitStandalone /\ [][NextStandalone]_vars

\* lengths of the files found on disk: around no section, one section, the
\* two header sections, and with one data section
OpenSizes == {0, 1, SectionSize - 1, SectionSize, SectionSize + 1,
              2 * SectionSize - 1, 2 * SectionSize, 2 * SectionSize + 1,
              3 * SectionSize}

\* index words found in a file of two sections or more: all zero, one entry
\* at section 2, and two entries that share section 2
OpenWords ==
    {[c \in Cells |-> 0],
     [c \in Cells |-> IF c = 0 THEN LocWord(2, 1) ELSE 0],
     [c \in Cells |-> IF c \in {0, 1} THEN LocWord(2, 1) ELSE 0]}

\* a file is found on disk; no container is open on it yet
InitOpen ==
    /\ \E sz \in OpenSizes, words \in OpenWords :
          /\ sz < 2 * SectionSize => words = [c \in Cells |-> 0]
          /\ fileLen = sz
          /\ disk = [s \in 2 .. (sz \div SectionSize - 1) |-> Zero]
          /\ locWords = words
    /\ tsWords = [c \in Cells |-> 0]
    /\ header = [entries |-> [c \in Cells |-> NoEntry],
                 used |-> [bits |-> {}, len |-> Entries]]
    /\ size = 0
    /\ cm = 0
    /\ closed = TRUE
    /\ writable = FALSE
    /\ hasFs = FALSE
    /\ ext = [c \in Cells |-> NoFile]
    /\ stored = [c \in Cells |-> 0]
    /\ lastOp = NoOp
    /\ panicked = FALSE
    /\ env = [lens |-> SmallLens, cap |-> MaxSections]
    /\ InitReaders
    /\ NoCache

NextOpen ==
    \/ \E canWrite \in BOOLEAN, fs \in BOOLEAN : ReopenAs(canWrite, fs)
    \/ \E x \in Xs, z \in Zs, n \in env.lens, now \in Times :
          Write(x, z, MaxPayload, n, now)
    \/ \E x \in Xs, z \in Zs, now \in Times : Remove(x, z, now)
    \/ \E x \in Xs, z \in Zs : Read(x, z)

SpecOpen == InitOpen /\ [][NextOpen]_vars

\* a writable container is written; a Write may be cut short by a crash,
\* after which the file is opened again
NextCrash ==
    \/ \E x \in Xs, z \in Zs, b \in Payloads, n \in env.lens, now \in Times :
          Write(x, z, b, n, now)
    \/ \E x \in Xs, z \in Zs, now \in Times : Remove(x, z, now)
    \/ \E x \in Xs, z \in Zs, n \in env.lens, now \in Times,
          k \in 1 .. 6, kept \in BOOLEAN :
          WriteCrash(x, z, MaxPayload, n, now, k, kept)
    \/ Reopen

SpecCrash == InitReopen /\ [][NextCrash]_vars

\* Header.Set on a header that belongs to no file; of the call, the error it
\* returns is recorded
HeaderSetCall(x, z, c) ==
    /\ ~panicked
    /\ LET set == HeaderSet(header, CellIndex(x, z), c)
       IN /\ header' = set.h
          /\ panicked' = set.panic
          /\ lastOp' = [op |-> "Set", x |-> 0, z |-> 0, data |-> 0,
                        err |-> IF set.panic THEN "panic" ELSE set.err,
                        was |-> 0]
    /\ UNCHANGED <<size, cm, closed, writable, hasFs, fileLen, disk, locWords,
                   tsWords, ext, stored, env>>
    /\ UNCHANGED <<rwVars, cacheVars>>

\* Header.Remove on a header that belongs to no file
HeaderRemoveCall(x, z) ==
    /\ ~panicked
    /\ LET rm == HeaderRemove(header, CellIndex(x, z))
       IN /\ header' = rm.h
          /\ lastOp' = [op |-> "Remove", x |-> 0, z |-> 0, data |-> 0,
                        err |-> rm.err, was |-> 0]
    /\ UNCHANGED <<size, cm, closed, writable, hasFs, fileLen, disk, locWords,
                   tsWords, ext, stored, panicked, env>>
    /\ UNCHANGED <<rwVars, cacheVars>>

\* makeHeader of the header tests: an empty table over a bitset of Entries
\* bits whose first two bits, the header sections, are set
InitHeader ==
    /\ header = [entries |-> [c \in Cells |-> NoEntry],
                 used |-> [bits |-> {0, 1}, len |-> Entries]]
    /\ size = 0
    /\ cm = 0
    /\ closed = FALSE
    /\ writable = FALSE
    /\ hasFs = FALSE
    /\ fileLen = 0
    /\ disk = <<>>
    /\ locWords = [c \in Cells |-> 0]
    /\ tsWords = [c \in Cells |-> 0]
    /\ ext = [c \in Cells |-> NoFile]
    /\ stored = [c \in Cells |-> 0]
    /\ lastOp = NoOp
    /\ panicked = FALSE
    /\ env = [lens |-> {}, cap |-> 0]
    /\ InitReaders
    /\ NoCache

NextHeader ==
    \/ \E x \in Xs, z \in Zs, o \in 0 .. MaxHeaderOffset, s \in 0 .. MaxHeaderSize :
          /\ s = 0 => o \in {0, 2}
          /\ o + s <= MaxHeaderOffset + 1
          /\ HeaderSetCall(x, z, [offset |-> o, size |-> s, timestamp |-> MaxTime])
    \/ \E x \in Xs, z \in Zs : HeaderRemoveCall(x, z)

SpecHeader == InitHeader /\ [][NextHeader]_vars

\* a writable container of less than MaxSectionsRW sections is written with
\* frames of one section, cleared and closed, while calls on its file fail
NextFail ==
    \/ \E x \in Xs, z \in Zs, now \in Times :
          /\ size < MaxSectionsRW * SectionSize
          /\ Write(x, z, MaxPayload, 1, now)
    \/ \E x \in Xs, z \in Zs, now \in Times : Remove(x, z, now)
    \/ \E x \in Xs, z \in Zs, b \in {0, MaxPayload}, now \in Times,
          k \in 1 .. 7, kept \in BOOLEAN :
          /\ size < MaxSectionsRW * SectionSize
          /\ WriteFail(x, z, b, 1, now, k, kept)
    \/ Close
    \/ CloseFail

SpecFail == InitReopen /\ [][NextFail]_vars

\* several threads read one writable container while it is written
InitRW ==
    /\ newAnvil(0, TRUE, TRUE, [lens |-> SmallLens, cap |-> MaxSectionsRW])
    /\ InitReaders
    /\ NoCache

NextRW ==
    \/ \E x \in Xs, z \in Zs, b \in 0 .. MaxPayload, n \in env.lens, now \in Times :
          Write(x, z, b, n, now)
    \/ \E x \in Xs, z \in Zs, now \in Times : Remove(x, z, now)
    \/ \E x \in Xs, z \in Zs : Read(x, z)
    \/ \E m \in Methods : CompressionMethod(m)
    \/ Close
    \/ \E t \in Readers, x \in Xs, z \in Zs : ReadBegin(t, x, z)
    \/ \E t \in Readers : ReadPiece(t)
    \/ \E t \in Readers : ReadEnd(t)

SpecRW == InitRW /\ [][NextRW]_vars

\* compressed lengths that fill the largest entry: one byte short of its
\* last section, and all of it
LargeLens == {MaxEntrySections * SectionSize - entryHeaderSize - 1,
              MaxEntrySections * SectionSize - entryHeaderSize}

\* a writable container is written with the largest entries
InitLarge ==
    /\ newAnvil(0, TRUE, TRUE,
                [lens |-> LargeLens,
                 cap |-> MaxFileSections + 2])
    /\ InitReaders
    /\ NoCache

NextLarge ==
    \/ \E x \in Xs, z \in Zs, n \in env.lens, now \in Times :
          Write(x, z, MaxPayload, n, now)
    \/ \E x \in Xs, z \in Zs, now \in Times : Remove(x, z, now)
    \/ \E x \in Xs, z \in Zs : Read(x, z)

SpecLarge == InitLarge /\ [][NextLarge]_vars

\* compressed lengths around the largest entry: the last frame that is
\* stored in the container, the first that is not, and the first that is not
\* whose frame ends on a section boundary
SpillLens == {MaxEntrySections * SectionSize - entryHeaderSize - 1,
              MaxEntrySections * SectionSize - entryHeaderSize + 1,
              (MaxEntrySections + 1) * SectionSize - entryHeaderSize}

\* a writable container with a file system is written with entries around
\* the largest size
InitSpill ==
    /\ newAnvil(0, TRUE, TRUE,
                [lens |-> SpillLens,
                 cap |-> MaxEntrySections + MaxSpillRoom])
    /\ InitReaders
    /\ NoCache

\* the callers write while the file is short
NextSpill ==
    \/ \E x \in Xs, z \in Zs, n \in env.lens, now \in Times :
          /\ size <= MaxSpillRoom * SectionSize
          /\ Write(x, z, MaxPayload, n, now)
    \/ \E x \in Xs, z \in Zs, now \in Times : Remove(x, z, now)
    \/ \E x \in Xs, z \in Zs : Read(x, z)

SpecSpill == InitSpill /\ [][NextSpill]_vars

\* several threads acquire and release containers of one directory
InitCache ==
    /\ newAnvil(0, TRUE, TRUE, [lens |-> SmallLens, cap |-> MaxSections])
    /\ InitReaders
    /\ containers = <<>>
    /\ wrappers = [w \in WrapperIds |-> NoWrapper]
    /\ inUse = [p \in Positions |-> 0]
    /\ lru = <<>>
    /\ tpc = [t \in Threads |-> "idle"]
    /\ tw = [t \in Threads |-> 0]
    /\ tpos = [t \in Threads |-> 0]
    /\ NoGate

NextCache ==
    \/ \E t \in Threads, rg \in Positions : GetFast(t, rg)
    \/ \E t \in Threads : GetSlow(t)
    \/ \E t \in Threads : FreeFast(t)
    \/ \E t \in Threads : FreeSlow(t)

SpecCache == InitCache /\ [][NextCache]_vars

\* several threads call and close one cached handle
InitGate ==
    /\ newAnvil(0, TRUE, TRUE, [lens |-> SmallLens, cap |-> MaxSections])
    /\ InitReaders
    /\ containers = <<>>
    /\ wrappers = <<>>
    /\ inUse = <<>>
    /\ lru = <<>>
    /\ tpc = <<>>
    /\ tw = <<>>
    /\ tpos = <<>>
    /\ gate = [closed |-> FALSE, released |-> 0, calls |-> 0, closes |-> 0]
    /\ gpc = [t \in Threads |-> "idle"]
    /\ gcall = [t \in Threads |-> NoCall]

NextGate ==
    \/ \E t \in Threads, op \in CachedCalls : CachedBegin(t, op)
    \/ \E t \in Threads : CachedEnd(t)
    \/ \E t \in Threads : CachedCloseLock(t)
    \/ \E t \in Threads : CachedClose(t)

SpecGate == InitGate /\ [][NextGate]_vars

\* several threads acquire and release containers and call Read, Write,
\* Remove and Close on the handles of the positions; all mutexes are free
InitLocks ==
    /\ newAnvil(0, TRUE, TRUE, [lens |-> SmallLens, cap |-> MaxSections])
    /\ InitReaders
    /\ containers = <<>>
    /\ wrappers = <<>>
    /\ inUse = <<>>
    /\ lru = <<>>
    /\ tpc = <<>>
    /\ tw = <<>>
    /\ tpos = <<>>
    /\ gate = [l \in {[k |-> "cache", p |-> 0]}
                     \cup {[k |-> k, p |-> p] : k \in {"gate", "file"}, p \in Positions}
                 |-> [r |-> {}, w |-> 0, p |-> {}]]
    /\ gpc = [t \in Threads |-> <<>>]
    /\ gcall = [t \in Threads |-> <<>>]

NextLocks ==
    \/ \E t \in Threads,
          call \in {"Acquire", "Release", "Read", "Write", "Remove", "Close"},
          p \in Positions, slow \in BOOLEAN, q \in {0} \cup Positions :
          LockStart(t, call, p, slow, q)
    \/ \E t \in Threads : LockStep(t)

SpecLocks == InitLocks /\ [][NextLocks]_vars

\* several threads acquire containers and release them through Close on the
\* handle, Anvil.Read or Anvil.Write, while closing an evicted container may
\* fail
InitEvict ==
    /\ newAnvil(0, TRUE, TRUE, [lens |-> SmallLens, cap |-> MaxSections])
    /\ InitReaders
    /\ containers = <<>>
    /\ wrappers = [w \in WrapperIds |-> NoWrapper]
    /\ inUse = [p \in Positions |-> 0]
    /\ lru = <<>>
    /\ tpc = [t \in Threads |-> "idle"]
    /\ tw = [t \in Threads |-> 0]
    /\ tpos = [t \in Threads |-> 0]
    /\ gate = <<>>
    /\ gpc = <<>>
    /\ gcall = [t \in Threads |-> NoCall]

NextEvict ==
    \/ \E t \in Threads, rg \in Positions : GetFast(t, rg)
    \/ \E t \in Threads : GetSlow(t)
    \/ \E t \in Threads : FreeFast(t)
    \/ \E t \in Threads, via \in {"Close", "Read", "Write"}, fails \in BOOLEAN :
          FreeSlowVia(t, via, fails)

SpecEvict == InitEvict /\ [][NextEvict]_vars

----------------------------------------------------------------------------
(* Properties of one container.                                            *)

\* the sections [offset, offset+size) of an entry
EntryRange(e) == e.offset .. (e.offset + e.size - 1)

Present(h) == {c \in Cells : Exists(h.entries[c])}

\* the last call was a Write of a non-empty buffer that succeeded
Wrote == lastOp.op = "Write" /\ lastOp.data # 0 /\ lastOp.err = "nil"

\* the last call was a Remove, or a Write of an empty buffer, that succeeded
Removed ==
    /\ lastOp.op \in {"Remove", "Write"}
    /\ lastOp.data = 0
    /\ lastOp.err = "nil"

\* C1: a Read of a cell that follows a successful Write of the non-empty
\* buffer B to that cell returns exactly B, whatever the compression method
\* and the compressed length.
C1_RoundTrip ==
    [][(/\ Wrote
        /\ lastOp'.op = "Read"
        /\ lastOp'.x = lastOp.x
        /\ lastOp'.z = lastOp.z)
          => (lastOp'.err = "nil" /\ lastOp'.data = lastOp.data)]_vars

\* C6: the set bits of the occupancy bitset from index 2 on are the union of
\* the section ranges of the present entries, and the ranges of two distinct
\* present entries are disjoint.
C6_OccupancyMatchesEntries ==
    ~closed =>
        /\ {s \in header.used.bits : s >= 2}
             = UNION {EntryRange(header.entries[c]) : c \in Present(header)}
        /\ \A c1, c2 \in Present(header) :
              c1 # c2 => EntryRange(header.entries[c1])
                           \cap EntryRange(header.entries[c2]) = {}

\* a Write has replaced an entry while the other cell is stored, and the
\* sections it freed lie below sections in use
C6_Witness ==
    /\ Wrote
    /\ lastOp.was # 0
    /\ Cardinality(Present(header)) = 2
    /\ \E s1, s2 \in 2 .. (header.used.len - 1) :
          s1 < s2 /\ ~BitTest(header.used, s1) /\ BitTest(header.used, s2)

\* C7: every present entry starts at section 2 or later and ends within the
\* file, the file never has more than MaxFileSections sections, and no index
\* word on disk describes an entry that ends beyond MaxFileSections.
C7_EntryBounds ==
    /\ \A c \in Present(header) :
          /\ header.entries[c].offset >= 2
          /\ header.entries[c].offset + header.entries[c].size
                <= size \div SectionSize
    /\ fileLen \div SectionSize <= MaxFileSections
    /\ \A c \in Cells :
          WordOffset(locWords[c]) + WordSize(locWords[c]) <= MaxFileSections

\* C8: after a Write or a Remove that succeeded the file length is a
\* multiple of the section size and at least two sections, and growFile(0)
\* on such a length leaves it unchanged.
C8_FileSize ==
    (Wrote \/ Removed) =>
        /\ fileLen % SectionSize = 0
        /\ fileLen >= 2 * SectionSize
        /\ size = fileLen
        /\ growFile(fileLen, 0).size = fileLen

\* a Remove succeeded on a container that holds nothing: the file is the two
\* header sections
C8_Witness ==
    /\ Removed
    /\ Present(header) = {}
    /\ fileLen = 2 * SectionSize

\* C9: a successful Write of B2 to a cell that holds B1 makes Read return
\* B2, and every section of the B1 entry that is not in the B2 entry is
\* clear in the occupancy bitset.
C9_WriteThenWrite ==
    [][LET x == lastOp'.x
           z == lastOp'.z
           idx == CellIndex(x, z)
           r == ReadFrom(header', disk', x, z, closed', hasFs', ext')
       IN (/\ lastOp'.op = "Write" /\ lastOp'.data # 0 /\ lastOp'.err = "nil"
           /\ stored[idx] # 0)
             => /\ r.err = "nil"
                /\ r.data = lastOp'.data
                /\ \A s \in EntryRange(header.entries[idx])
                           \ EntryRange(header'.entries[idx]) :
                      ~BitTest(header'.used, s)]_vars

\* C10: a successful Remove (or Write of an empty buffer) of a cell that
\* holds B makes Read return ErrNotExist and Info report the cell absent,
\* and every section of the B entry is clear in the occupancy bitset.
C10_WriteThenRemove ==
    [][LET x == lastOp'.x
           z == lastOp'.z
           idx == CellIndex(x, z)
           r == ReadFrom(header', disk', x, z, closed', hasFs', ext')
       IN (/\ lastOp'.op \in {"Remove", "Write"}
           /\ lastOp'.data = 0
           /\ lastOp'.err = "nil"
           /\ stored[idx] # 0)
             => /\ r.err = "ErrNotExist"
                /\ ~Info(header', x, z).exists
                /\ \A s \in EntryRange(header.entries[idx]) :
                      ~BitTest(header'.used, s)]_vars

\* a stored cell has been removed while the other cell is still stored
C10_Witness ==
    /\ Removed
    /\ lastOp.was # 0
    /\ Present(header) # {}

\* C5: while a thread reads, no Write, Remove, CompressionMethod or Close
\* takes effect; a read that ends returns the content that was stored when
\* it began; and after a successful Write a new Read returns the buffer
\* written.
C5_ReadersAndWriters ==
    [][/\ (\E t \in Readers : pc[t] = "reading")
            => UNCHANGED <<header, size, cm, closed, fileLen, disk, locWords,
                           tsWords, ext, stored>>
       /\ \A t \in Readers :
             (pc[t] = "reading" /\ pc'[t] = "idle")
                => (lastOp'.err = "nil" /\ lastOp'.data = rd[t].expect)
       /\ (lastOp'.op = "Write" /\ lastOp'.data # 0 /\ lastOp'.err = "nil")
             => ReadFrom(header', disk', lastOp'.x, lastOp'.z, closed', hasFs',
                         ext') = Result("nil", lastOp'.data)]_vars

\* C11: after the container is closed and opened again, every cell that
\* was stored reads back the bytes last written to it and every other cell
\* returns ErrNotExist.
C11_ReopenKeepsContent ==
    (lastOp.op = "Reopen" /\ lastOp.err = "nil") =>
        \A x \in Xs, z \in Zs :
            IF stored[CellIndex(x, z)] # 0
            THEN ReadResult(x, z) = Result("nil", stored[CellIndex(x, z)])
            ELSE ReadResult(x, z).err = "ErrNotExist"

\* C12: a successful Write whose frame needs at most 255 sections stores it
\* in the container with an entry of that many sections; one whose frame
\* needs 256 sections or more, on a container with a file system, puts the
\* compressed bytes in the sibling file and stores a one-section entry whose
\* method byte has the external bit and whose payload is the single byte 0,
\* and Read returns the bytes written.
C12_SpillBoundary ==
    [][\A x \in Xs, z \in Zs, n \in env.lens, now \in Times :
          (Write(x, z, MaxPayload, n, now) /\ lastOp'.err = "nil") =>
             LET need == sections(AppendedLength(n))
                 e == header'.entries[CellIndex(x, z)]
                 fh == FrameHeader(disk', e.offset)
             IN IF need <= MaxEntrySections
                THEN /\ e.size = need
                     /\ fh.known
                     /\ fh.mbyte < externalMask
                     /\ fh.len - 1 = n
                ELSE /\ hasFs
                     /\ e.size = 1
                     /\ fh.known
                     /\ fh.mbyte >= externalMask
                     /\ fh.len - 1 = 1
                     /\ disk'[e.offset].tok.data = 0
                     /\ ReadFrom(header', disk', x, z, closed', hasFs', ext')
                          = Result("nil", MaxPayload)]_vars

\* C13: a thread can begin a Read of a stored cell while other threads are
\* reading, and threads that read one cell at the same time receive the same
\* bytes: each is given the stream of the entry as the file holds it, and a
\* read that ends returns what a Read of the cell alone returns.
C13_ConcurrentReads ==
    [][/\ \A t1, t2 \in Readers, x \in Xs, z \in Zs :
             (/\ t1 # t2
              /\ pc[t1] = "reading"
              /\ pc[t2] = "idle"
              /\ ~panicked
              /\ read(header, disk, x, z, closed, hasFs, ext).err = "nil")
                => ENABLED ReadBegin(t2, x, z)
       /\ \A t \in Readers :
             (pc[t] = "reading" /\ pc'[t] = "idle") =>
                /\ Result(lastOp'.err, lastOp'.data) = ReadResult(rd[t].x, rd[t].z)
                /\ \A t2 \in Readers \ {t} :
                      (pc[t2] = "reading" /\ rd[t2].x = rd[t].x /\ rd[t2].z = rd[t].z)
                         => /\ rd[t2].s = rd[t].s
                            /\ rd[t2].intact =
                                 (\A j \in 0 .. (rd[t2].k - 1) :
                                     Piece(disk, ext, rd[t2].s, j))]_vars

\* two threads are reading the same stored cell, and each has pulled a piece
C13_Witness ==
    /\ \A t \in Readers : pc[t] = "reading" /\ rd[t].k > 0
    /\ \A t1, t2 \in Readers : rd[t1].x = rd[t2].x /\ rd[t1].z = rd[t2].z
    /\ \E t \in Readers : stored[CellIndex(rd[t].x, rd[t].z)] # 0

\* C16: Info can be called at any time; it returns without a crash, and on
\* a closed container it reports the cell as not stored.
C16_InfoAnyTime ==
    lastOp.op = "Info" =>
        /\ lastOp.err = "nil"
        /\ ~panicked
        /\ closed => lastOp.data = 0

\* C17: on an open container without a writer every Write and every Remove
\* with valid coordinates returns ErrReadOnly and changes neither the file,
\* nor the header entries, nor the occupancy bitset, nor the recorded size;
\* Read and Info return after it what they returned before it.
C17_ReadOnly ==
    [][\A x \in Xs, z \in Zs, b \in 0 .. MaxPayload, n \in env.lens, now \in Times :
          (/\ ~writable
           /\ ~closed
           /\ Write(x, z, b, n, now) \/ Remove(x, z, now))
             => /\ lastOp'.err = "ErrReadOnly"
                /\ UNCHANGED <<header, size, fileLen, disk, locWords, tsWords, ext>>
                /\ \A x2 \in Xs, z2 \in Zs :
                      /\ ReadFrom(header', disk', x2, z2, closed', hasFs', ext')
                           = ReadResult(x2, z2)
                      /\ Info(header', x2, z2) = Info(header, x2, z2)]_vars

\* a container that holds an entry and was opened for reading only has
\* refused a Write to the cell of that entry, which still reads back
C17_Witness ==
    /\ ~writable
    /\ ~closed
    /\ lastOp.op = "Write"
    /\ lastOp.data # 0
    /\ lastOp.err = "ErrReadOnly"
    /\ stored[CellIndex(lastOp.x, lastOp.z)] # 0
    /\ ReadResult(lastOp.x, lastOp.z)
         = Result("nil", stored[CellIndex(lastOp.x, lastOp.z)])
    /\ Info(header, lastOp.x, lastOp.z).exists

\* C18: Close takes effect only when no thread is reading and returns nil; a
\* Close of a closed container syncs and closes nothing; and on a closed
\* container every Read, Write, Remove and CompressionMethod returns ErrClosed
\* and leaves the file and the container as they were.
C18_Closed ==
    [][/\ Close =>
             /\ \A t \in Readers : pc[t] = "idle"
             /\ lastOp'.err = "nil"
             /\ closed'
             /\ lastOp'.data = IF closed THEN 0 ELSE 1
       /\ closed =>
             /\ closed'
             /\ \A t \in Readers : pc'[t] = "idle"
             /\ UNCHANGED <<header, size, cm, fileLen, disk, locWords, tsWords,
                            ext, stored>>
             /\ (/\ lastOp' # lastOp
                 /\ lastOp'.op \in {"Read", "Write", "Remove", "CompressionMethod"})
                   => lastOp'.err = "ErrClosed"]_vars

\* a container that holds an entry was closed, and Close was called on it
\* again
C18_Witness ==
    /\ closed
    /\ lastOp.op = "Close"
    /\ lastOp.data = 0
    /\ \E c \in Cells : stored[c] # 0

\* the cell holds an entry whose frame has the external bit in its method byte
ExternalEntry(h, d, c) ==
    /\ Exists(h.entries[c])
    /\ h.entries[c].offset \in DOMAIN d
    /\ d[h.entries[c].offset] # Zero
    /\ d[h.entries[c].offset].sec = 0
    /\ d[h.entries[c].offset].tok.method >= externalMask

\* C19: on an open container without a file system a Write whose frame needs
\* more than 255 sections returns ErrExternal and changes neither the file,
\* nor the header entries, nor the occupancy bitset, nor the recorded size;
\* and a Read of an entry whose method byte has the external bit returns
\* ErrExternal.
C19_Standalone ==
    [][/\ \A x \in Xs, z \in Zs, n \in env.lens, now \in Times :
             (/\ ~hasFs
              /\ ~closed
              /\ sections(AppendedLength(n)) > MaxEntrySections
              /\ Write(x, z, MaxPayload, n, now))
                => /\ lastOp'.err = "ErrExternal"
                   /\ UNCHANGED <<header, size, fileLen, disk, locWords, tsWords,
                                  ext>>
       /\ \A x \in Xs, z \in Zs :
             (~hasFs /\ ~closed /\ ExternalEntry(header, disk, CellIndex(x, z)))
                => ReadResult(x, z).err = "ErrExternal"]_vars

\* a container whose file holds an entry stored in a sibling file is open
\* without a file system and has refused a Write of a frame of 256 sections
C19_Witness ==
    /\ ~hasFs
    /\ ~closed
    /\ lastOp.op = "Write"
    /\ lastOp.err = "ErrExternal"
    /\ \E c \in Cells : ExternalEntry(header, disk, c)

\* C20: opening a file fails with ErrSize exactly when its length is not a
\* multiple of 4096 or lies strictly between 0 and 8192, whatever the file
\* holds; a file of length 0 gives an open container in which no cell is
\* stored; so does a file of length 8192 whose index words are all zero.
C20_OpenSize ==
    [][\A canWrite \in BOOLEAN, fs \in BOOLEAN :
          ReopenAs(canWrite, fs) =>
             /\ (lastOp'.err = "ErrSize")
                   <=> (\/ fileLen % 4096 # 0
                        \/ (0 < fileLen /\ fileLen < 8192))
             /\ (\/ fileLen = 0
                 \/ (fileLen = 8192 /\ \A c \in Cells : locWords[c] = 0))
                   => /\ lastOp'.err = "nil"
                      /\ ~closed'
                      /\ header'.used.bits = {}
                      /\ \A x \in Xs, z \in Zs :
                            ReadFrom(header', disk', x, z, closed', hasFs', ext').err
                               = "ErrNotExist"]_vars

\* a file of exactly the two header sections, all zero, has been opened
C20_Witness ==
    /\ lastOp.op = "Reopen"
    /\ lastOp.err = "nil"
    /\ ~closed
    /\ fileLen = 8192
    /\ \A c \in Cells : locWords[c] = 0

\* C22: the index word of a cell is written only after the payload it
\* refers to was written and synced: at every moment, a crash included, every
\* non-zero index word on disk refers to sections of the file that hold a
\* whole frame.
C22_IndexAfterPayload ==
    \A c \in Cells :
        locWords[c] # 0 =>
            LET off == WordOffset(locWords[c])
            IN /\ off \in DOMAIN disk
               /\ disk[off] # Zero
               /\ disk[off].sec = 0
               /\ sections(disk[off].tok.length) = WordSize(locWords[c])
               /\ \A j \in 0 .. (WordSize(locWords[c]) - 1) :
                     /\ off + j \in DOMAIN disk
                     /\ disk[off + j].tok = disk[off].tok
                     /\ disk[off + j].sec = j
                     /\ disk[off + j].n
                          >= Min(SectionSize, disk[off].tok.length - j * SectionSize)

C25_FirstFit ==
    \A sz \in 1 .. (MaxHeaderSize + 1) :
        LET f == FindSpace(header.used, sz)
        IN f.found
              => /\ f.offset >= 2
                 /\ \A p \in f.offset .. (f.offset + sz - 1) : ~BitTest(header.used, p)
                 /\ \A o \in 2 .. (f.offset - 1) :
                       \E p \in o .. (o + sz - 1) : BitTest(header.used, p)

\* a request of two sections is answered with a hole behind a hole of one
\* section
C25_Witness ==
    /\ FindSpace(header.used, 2).found
    /\ FindSpace(header.used, 2).offset > 2
    /\ ~BitTest(header.used, 2)

\* C26: a Write extends the file only when the file holds no run of free
\* sections, after the two header sections, that is long enough for the
\* frame; a free run that reaches the end of the file counts.
C26_GrowsOnlyWhenFull ==
    [][(/\ lastOp'.op = "Write"
        /\ lastOp'.data # 0
        /\ lastOp'.err = "nil"
        /\ size' > size)
          => LET sz == header'.entries[CellIndex(lastOp'.x, lastOp'.z)].size
             IN ~\E o \in 2 .. (size \div SectionSize - sz) :
                    \A p \in o .. (o + sz - 1) : ~BitTest(header.used, p)]_vars

\* C27: after an open that succeeds on a file that is not empty, every
\* entry of one section or more starts after the two header sections and
\* ends inside the file, no two entries share a section, and a cell is
\* absent exactly when its offset and its size are both zero.
C27_OpenValidates ==
    [][(lastOp'.op = "Reopen" /\ lastOp'.err = "nil" /\ fileLen > 0)
          => /\ \A c \in Cells :
                  LET e == header'.entries[c]
                  IN /\ e.size > 0
                        => /\ e.offset >= 2
                           /\ e.offset + e.size <= fileLen \div SectionSize
                     /\ ~Exists(e) <=> (e.offset = 0 /\ e.size = 0)
             /\ \A c1, c2 \in Cells :
                  c1 # c2 => EntryRange(header'.entries[c1])
                                \cap EntryRange(header'.entries[c2]) = {}]_vars

\* C28: a Write or a Remove that returns an error leaves the container in
\* memory as it was: the entries, the bitset and the recorded file size.
C28_ErrorLeavesState ==
    [][(lastOp'.op \in {"Write", "Remove"} /\ lastOp'.err \notin {"nil", "panic"})
          => header' = header /\ size' = size]_vars

\* C29: a Remove that succeeds clears the bits of the cell's entry and
\* zeroes the entry in memory, extends a file shorter than the two header
\* sections to exactly these and leaves a longer one as long as it was, and
\* leaves both words of the cell on disk zero, so that the timestamp on disk
\* is the timestamp in memory.
C29_RemoveEffects ==
    [][(lastOp'.op = "Remove" /\ lastOp'.err = "nil")
          => LET idx == CellIndex(lastOp'.x, lastOp'.z)
                 old == header.entries[idx]
             IN /\ header'.entries[idx] = NoEntry
                /\ Exists(old) => header'.used.bits = header.used.bits \ EntryRange(old)
                /\ fileLen' = Max(fileLen, 2 * SectionSize)
                /\ locWords'[idx] = 0
                /\ tsWords'[idx] = 0
                /\ tsWords'[idx] = header'.entries[idx].timestamp]_vars

\* C30: after every call of Header.Set and Header.Remove the set bits are
\* the two reserved bits and the sections of the stored entries, as many as
\* the sizes of the stored entries add up to plus two.  A Set that returns
\* no error has cleared the sections of the old entry and marked those of
\* the new one; a Set of the entry (0, 0) does what Remove does; Set returns
\* an error exactly when a section of the new entry is marked for another
\* entry, and Remove exactly when a section it is to clear is not marked.
C30_SetRemoveExact ==
    [][LET Stored == {c \in Cells : Exists(header'.entries[c])}
           Total[n \in 0 .. Entries] ==
               IF n = 0 THEN 0
               ELSE Total[n - 1] + (IF (n - 1) \in Stored
                                    THEN header'.entries[n - 1].size ELSE 0)
           OldRange(idx) == IF Exists(header.entries[idx])
                            THEN EntryRange(header.entries[idx]) ELSE {}
       IN /\ ~panicked'
             => /\ header'.used.bits
                     = {0, 1} \cup UNION {EntryRange(header'.entries[c]) : c \in Stored}
                /\ Cardinality(header'.used.bits) = Total[Entries] + 2
          /\ \A x \in Xs, z \in Zs, o \in 0 .. MaxHeaderOffset, s \in 0 .. MaxHeaderSize :
                LET c   == [offset |-> o, size |-> s, timestamp |-> MaxTime]
                    idx == CellIndex(x, z)
                IN (HeaderSetCall(x, z, c) /\ ~panicked')
                      => /\ lastOp'.err = "nil" /\ (o # 0 \/ s # 0)
                            => /\ header'.entries[idx] = c
                               /\ header'.used.bits
                                     = (header.used.bits \ OldRange(idx)) \cup EntryRange(c)
                         /\ (o = 0 /\ s = 0) => header' = HeaderRemove(header, idx).h
                         /\ (o # 0 \/ s # 0)
                            => (lastOp'.err # "nil"
                                  <=> EntryRange(c) \cap (header.used.bits \ OldRange(idx)) # {})
          /\ \A x \in Xs, z \in Zs :
                HeaderRemoveCall(x, z)
                   => LET idx == CellIndex(x, z)
                      IN /\ lastOp'.err = "nil"
                            => /\ header'.entries[idx] = NoEntry
                               /\ header'.used.bits = header.used.bits \ OldRange(idx)
                         /\ lastOp'.err # "nil" <=> ~(OldRange(idx) \subseteq header.used.bits)]_vars

\* C34: after a Write that puts an entry in its sibling file, the file holds
\* the whole frame: the four bytes of the length, the method byte and the
\* compressed bytes, entryHeaderSize bytes more than the compressed form.
C34_ExternalFrame ==
    [][\A x \in Xs, z \in Zs, n \in env.lens, now \in Times :
          (/\ Write(x, z, MaxPayload, n, now)
           /\ lastOp'.err = "nil"
           /\ sections(AppendedLength(n)) > MaxEntrySections)
             => /\ ext'[CellIndex(x, z)] # NoFile
                /\ ext'[CellIndex(x, z)].tok.length = AppendedLength(n)
                /\ ext'[CellIndex(x, z)].bytes = n + entryHeaderSize]_vars

\* C35: CompressionMethod with a supported method makes it the method of
\* the container and returns no error; with an unsupported tag it returns an
\* error and leaves the method as it was.  A Write that succeeds stores a
\* frame whose method byte is the method of the container, zlib when none
\* was ever set.
C35_MethodInEffect ==
    [][/\ (lastOp'.op = "CompressionMethod" /\ ~closed)
          => IF lastOp'.data \in Methods
             THEN lastOp'.err = "nil" /\ cm' = lastOp'.data
             ELSE lastOp'.err # "nil" /\ cm' = cm
       /\ \A x \in Xs, z \in Zs, b \in Payloads, n \in env.lens, now \in Times :
             (Write(x, z, b, n, now) /\ lastOp'.err = "nil")
                => LET e  == header'.entries[CellIndex(x, z)]
                       fh == FrameHeader(disk', e.offset)
                   IN /\ fh.known
                      /\ fh.mbyte = (IF cm = 0 THEN CompressionZlib ELSE cm)]_vars

C37_BufferEmission ==
    \A n \in env.lens :
        /\ ~ChunkPanics(n + entryHeaderSize, TRUE)
        /\ Emitted(n + entryHeaderSize, TRUE) = n + entryHeaderSize
        /\ ~ChunkPanics(n + entryHeaderSize, FALSE)
        /\ Emitted(n + entryHeaderSize, FALSE) = n

\* C38: a Close call on an open container closes the reader once, or leaves
\* the container open so that a later Close call closes it; a Close call on
\* a closed container, whose reader was closed before, closes nothing.
C38_CloseReleasesReader ==
    [][(Close \/ CloseFail)
          => IF closed THEN lastOp'.data = 0
             ELSE lastOp'.data = 1 \/ ~closed']_vars

\* C39: a stream that file.read hands out over an entry stored in the
\* container covers bytes of the entry's own sections only: it starts
\* entryHeaderSize bytes into the first section and ends no later than the
\* last section of the entry does.
C39_ReadInsideRegion ==
    \A x \in Xs, z \in Zs :
        LET o == read(header, disk, x, z, closed, hasFs, ext)
            entry == header.entries[CellIndex(x, z)]
        IN (o.err = "nil" /\ ~o.s.external)
              => /\ o.s.off = entry.offset
                 /\ entryHeaderSize + o.s.length <= entry.size * SectionSize

\* C40: every sibling-file handle that a Write or a Read opens is closed
\* when the call returns.
C40_SiblingHandlesClosed ==
    [][/\ \A x \in Xs, z \in Zs, n \in env.lens, now \in Times :
            Write(x, z, MaxPayload, n, now)
               => WriteHandles(x, z, MaxPayload, n).closed
                     = WriteHandles(x, z, MaxPayload, n).opened
       /\ \A x \in Xs, z \in Zs :
            Read(x, z) => ReadHandles(x, z).closed = ReadHandles(x, z).opened]_vars

----------------------------------------------------------------------------
(* Properties of the directory cache, checked under SpecCache.             *)

\* the threads that hold a handle on container c: they acquired a cachedFile
\* of c and have not begun to release it
Holders(c) ==
    {t \in Threads : tpc[t] = "held" /\ wrappers[tw[t]].file = c}

\* the use count of container c: the counts of the reachable cachedFile
\* objects around it
UseCount(c) ==
    LET ws == {w \in Reachable(inUse, tw) : wrappers[w].file = c}
    IN IF \E w \in ws : wrappers[w].useCount > 0 THEN 1 ELSE 0

InLru(c) == \E i \in 1 .. Len(lru) : lru[i].file = c
InMap(c) == \E p \in Positions : inUse[p] # 0 /\ wrappers[inUse[p]].file = c

\* C2: no step of the cache closes a container that a thread holds (it was
\* returned by get and free has not been called on it).
C2_EvictionSparesHeld ==
    [][\A c \in DOMAIN containers :
          (containers[c].open /\ ~containers'[c].open) => Holders(c) = {}]_vars

\* C3: every container is closed at most once, no closed container is in
\* the LRU, and get never returns a closed container.
C3_ClosedOnceAndGone ==
    [][/\ \A c \in DOMAIN containers' : containers'[c].closes <= 1
       /\ \A i \in 1 .. Len(lru') : containers'[lru'[i].file].open
       /\ \A t \in Threads :
             (tpc[t] # "held" /\ tpc'[t] = "held")
                => containers'[wrappers'[tw'[t]].file].open]_vars

\* C4: every open container is in exactly one of the map and the LRU, and
\* every container in the LRU has use count 0.
C4_MapXorLru ==
    /\ \A c \in DOMAIN containers :
          containers[c].open => (InMap(c) /\ ~InLru(c)) \/ (~InMap(c) /\ InLru(c))
    /\ \A i \in 1 .. Len(lru) : UseCount(lru[i].file) = 0

\* the containers of position p that are open
OpenAt(cs, p) == {c \in DOMAIN cs : cs[c].open /\ cs[c].pos = p}

C31_EvictionPolicy ==
    [][/\ Len(lru') <= LruSize
       /\ \A t \in Threads :
             (tpc[t] = "free" /\ tpc'[t] # "free" /\ wrappers[tw[t]].useCount = 0)
                => LET f      == wrappers[tw[t]].file
                       closed1 == {c \in DOMAIN containers :
                                      containers'[c].closes # containers[c].closes}
                   IN /\ IF Len(lru) = LruSize
                         THEN /\ closed1 = {lru[Len(lru)].file}
                              /\ lru[Len(lru)].file # f
                              /\ UseCount(lru[Len(lru)].file) = 0
                         ELSE closed1 = {}
                      /\ tpc'[t] = "idle"
                      /\ lru'[1].file = f]_vars

\* C32: the locked section of an acquisition that finds the position absent
\* from the map and present in the LRU takes the container out of the LRU
\* and returns it, open, with use count 1 and without opening a file; a file
\* is opened only when the position is in neither the map nor the LRU.
C32_ReborrowIdle ==
    [][\A t \in Threads :
          (tpc[t] = "get" /\ tpc'[t] = "held")
             => LET p == tpos[t]
                    i == LruIndex(lru, p)
                IN /\ (inUse[p] = 0 /\ i # 0)
                      => /\ LruIndex(lru', p) = 0
                         /\ wrappers'[tw'[t]].file = lru[i].file
                         /\ wrappers'[tw'[t]].useCount = 1
                         /\ inUse'[p] = tw'[t]
                         /\ containers' = containers
                         /\ containers'[lru[i].file].open
                   /\ Len(containers') > Len(containers)
                      => inUse[p] = 0 /\ i = 0]_vars

\* C33: no thread asks for the cache lock while it holds a container lock,
\* a thread that holds both took the cache lock first, and the calls never
\* block one another for good: whenever a thread is inside a call, some
\* thread that is inside a call can take its next step.
C33_LockOrder ==
    /\ \A t \in Threads :
          /\ (gpc[t] # <<>> /\ Head(gpc[t]).on.k = "cache"
                /\ Head(gpc[t]).do \in {"Lock", "RLock"})
                => \A i \in 1 .. Len(gcall[t]) : gcall[t][i].k # "file"
          /\ \A i, j \in 1 .. Len(gcall[t]) :
                (gcall[t][i].k = "file" /\ gcall[t][j].k = "cache") => j < i
    /\ (\E t \in Threads : gpc[t] # <<>>)
          => \E t \in Threads : ENABLED LockStep(t)

\* a release holds the cache lock and waits for the lock of the container
\* it evicts while another thread reads that container
C33_Witness ==
    \E t1, t2 \in Threads, q \in Positions :
        /\ [k |-> "cache", p |-> 0] \in {gcall[t1][i] : i \in 1 .. Len(gcall[t1])}
        /\ t1 \in gate[[k |-> "file", p |-> q]].p
        /\ t2 \in gate[[k |-> "file", p |-> q]].r

\* C21: when a release evicts a container whose Close fails, the call that
\* caused the release (Close on the handle, Anvil.Read, Anvil.Write) returns
\* the wrapped error, and the released container is in the LRU all the same.
C21_EvictionErrorSurfaced ==
    [][\A t \in Threads :
          (tpc[t] = "free" /\ tpc'[t] = "idle" /\ gcall'[t].free # "nil")
             => /\ gcall'[t].err = gcall'[t].free
                /\ \E i \in 1 .. Len(lru') :
                      lru'[i].file = wrappers[tw[t]].file]_vars

----------------------------------------------------------------------------
(* Properties of a cached handle, checked under SpecGate.                  *)

\* C15: Close on a cached handle takes effect only when no Read, Write,
\* Remove or CompressionMethod on the handle is in flight; the container is
\* handed back to the cache once, however many times and from however many
\* threads Close is called; and every call that begins after a Close has
\* returned fails with ErrClosed and is not passed on to the container.
C15_CloseGate ==
    [][/\ \A t \in Threads :
             gpc'[t] = "closing" => \A t2 \in Threads \ {t} : gpc'[t2] = "idle"
       /\ \A t \in Threads :
             (gpc[t] = "closing" /\ gpc'[t] = "idle")
                => (gate'.closed /\ gate'.released = 1)
       /\ gate'.released <= 1
       /\ gate.closed =>
             /\ gate'.calls = gate.calls
             /\ \A t \in Threads :
                   /\ gpc'[t] # "in"
                   /\ (gcall'[t] # gcall[t] /\ gcall'[t].op \notin {"Close", "Info"})
                         => gcall'[t].err = "ErrClosed"]_vars

\* Close was called twice, the container went back to the cache once, and a
\* call made before the Close was passed on while one made after it was
\* refused
C15_Witness ==
    /\ gate.closes >= 2
    /\ gate.released = 1
    /\ gate.calls >= 1
    /\ \A t \in Threads : gpc[t] = "idle"
    /\ \E t \in Threads : gcall[t].err = "ErrClosed"

=============================================================================
